---- MODULE Spec2Model ----
(***************************************************************************)
(* Order-lifecycle and limit-trigger engine of the trading bot.            *)
(*                                                                         *)
(* Modelled revisions: src/server/trading-engine.ts lines 231-761 (the     *)
(* revision with the limit-order manager), src/server/limit-order-         *)
(* manager.ts, and the scheduler revision at src/server/research-engine.ts *)
(* lines 137-380 (30-second monitor job, 2-minute cleanup job, analysis    *)
(* job with the same-direction check), and the revision of                 *)
(* enforceRiskRewardAndSanitize at src/server/groq-client.ts lines         *)
(* 993-1159 (the one that knows the execution strategy).                   *)
(*                                                                         *)
(* Specifications: Spec (the cron jobs), SpecExec (direct calls of         *)
(* executeTrade), SpecStore (direct calls of the LimitOrderManager),       *)
(* SpecClose (direct calls of closeTrade), SpecSanitize (calls of the      *)
(* sanitizer), SpecNotify (executeTrade and closeTrade with the outcome of *)
(* their mails noted), SpecAnalysis (the analysis pass with the answer of  *)
(* the recommendation service noted), SpecResolve (the loop body of        *)
(* monitorTrades on single trades), SpecRace (one analysis and one monitor *)
(* callback with room for two exchange orders) and SpecLive (the cron jobs *)
(* with a fair clock and a fair cleanup job).                              *)
(*                                                                         *)
(* Prices are integers in ticks of 0.01 USD.  Every price executeTrade     *)
(* gets from the market is a multiple of 200 ticks, so that the 0.5% stop  *)
(* of the market branch (entry * 0.995) is an integer.  Time is in         *)
(* minutes.                                                                *)
(***************************************************************************)
EXTENDS Integers, Sequences, FiniteSets, TLC

VARIABLES
  now,            \* the clock (Date.now()), in minutes
  settings,       \* the Settings row of the storage
  pendingOrders,  \* LimitOrderManager.pendingOrders
  limitSeq,       \* number of limit order ids handed out so far
  trades,         \* the trades table of the storage
  performance,    \* today's DailyPerformance row
  exchangeOrders, \* the orders the exchange has accepted
  isAnalyzing,    \* latch of the analysis job
  isMonitoring,   \* latch of the monitor job
  pc,             \* where each running callback or call is suspended
  loc             \* its local variables

vars == <<now, settings, pendingOrders, limitSeq, trades, performance,
          exchangeOrders, isAnalyzing, isMonitoring, pc, loc>>

(***************************************************************************)
(* Bounds of the model.                                                    *)
(***************************************************************************)
MaxTime == 16
MaxLimitOrders == 2
MaxExchangeOrders == 1

(***************************************************************************)
(* Program constants.                                                      *)
(***************************************************************************)
EXPIRY_MINUTES == 15
MinConfidence == 70
WarmUpSeconds == 30
\* The factor 100 of the percentages, in the units they are kept in:
\* pnlPercentage in ten-thousandths of a percent, winRate in hundredths of a
\* percent.
PercentScale == 1000000
RateScale == 10000
DefaultLeverage == 50
DefaultBalanceAllocation == 100
DefaultConcurrentTrades == 1

(***************************************************************************)
(* Input domains.                                                          *)
(***************************************************************************)
\* 100200 is 0.2% above 100000 (too close for a limit order), 101000 is 1%
\* above it (a valid limit distance), 104000 is 4% above it (too far).
PriceSet == {100000, 100200, 101000, 104000}
\* The prices checkPendingOrders is called with: the market prices and
\* prices just inside and just outside the 0.1% tolerance around the entries.
TriggerPrices == PriceSet \cup {100090, 100110, 100910}
EntrySet == {100000, 101000}
\* Wallet balances in ticks: nothing, too little for one contract, enough for
\* one contract at either entry price.
BalanceSet == {0, 10, 39}
ConcurrentSet == {1, 2}
Directions == {"long", "short"}

Abs(x) == IF x < 0 THEN -x ELSE x

(***************************************************************************)
(* TradingRecommendation / TradeSignal.                                    *)
(***************************************************************************)
NoSignal ==
  [direction |-> "none", entryPrice |-> 0, stopLoss |-> 0, takeProfit |-> 0,
   confidence |-> 0, executionStrategy |-> "market"]

\* A recommendation whose stop and target are on the right sides of the entry
\* (0.5% stop, 1% target), or on the wrong sides when ordered = FALSE.
MkSignal(dir, entry, strat, conf, ordered) ==
  LET risk == (entry * 5) \div 1000
      below == entry - risk
      above == entry + 2 * risk
      longRight == (dir = "long") = ordered
  IN [direction |-> dir, entryPrice |-> entry,
      stopLoss |-> IF longRight THEN below ELSE above,
      takeProfit |-> IF longRight THEN above ELSE below,
      confidence |-> conf, executionStrategy |-> strat]

\* Limit recommendations at both entries, market recommendations at one, and
\* one recommendation per direction with stop and target on the wrong sides.
TradableSignals ==
  {MkSignal(d, e, "limit", 80, TRUE) : d \in Directions, e \in EntrySet} \cup
  {MkSignal(d, 100000, "market", 80, TRUE) : d \in Directions} \cup
  {MkSignal(d, 100000, "limit", 80, FALSE) : d \in Directions}

\* What the analysis job can receive from researchMarkets besides null.
AnalysisSignals ==
  {MkSignal("long", 100000, "limit", 80, TRUE),
   MkSignal("short", 101000, "limit", 80, TRUE),
   MkSignal("long", 100000, "market", 80, TRUE),
   MkSignal("short", 100000, "market", 80, TRUE),
   NoSignal,
   MkSignal("long", 100000, "market", 60, TRUE)}

(***************************************************************************)
(* LimitOrderManager (src/server/limit-order-manager.ts).                  *)
(* pendingOrders is the Map, kept as the sequence of its values in         *)
(* insertion order, which is the Map's iteration order.                    *)
(***************************************************************************)
\* A variant of PendingOrder: the entry lives twice the expiry time.
PendingOrderLongLived(id, recommendation, currentPrice, t) ==
  [id |-> id, recommendation |-> recommendation,
   targetEntry |-> recommendation.entryPrice, currentPrice |-> currentPrice,
   createdAt |-> t, expiresAt |-> t + 2 * EXPIRY_MINUTES]

PendingOrder(id, recommendation, currentPrice, t) ==
  [id |-> id, recommendation |-> recommendation,
   targetEntry |-> recommendation.entryPrice, currentPrice |-> currentPrice,
   createdAt |-> t, expiresAt |-> t + EXPIRY_MINUTES]

\* A variant of addPendingOrder: a recommendation whose direction is already
\* pending is refused.
addPendingOrderUnlessPending(store, id, recommendation, currentPrice, t) ==
  IF \E i \in 1..Len(store) :
       store[i].recommendation.direction = recommendation.direction
  THEN store
  ELSE Append(store, PendingOrder(id, recommendation, currentPrice, t))

\* addPendingOrder: no check of the entries already in the Map.
addPendingOrder(store, id, recommendation, currentPrice, t) ==
  Append(store, PendingOrder(id, recommendation, currentPrice, t))

\* A variant of Expired: no entry ever counts as expired.
ExpiredNever(order, t) == FALSE

\* Lines 71-82: now > order.expiresAt
Expired(order, t) == t > order.expiresAt

\* A variant of Triggered: no tolerance.
TriggeredExactly(order, currentPrice) ==
  IF order.recommendation.direction = "long"
  THEN currentPrice <= order.targetEntry
  ELSE IF order.recommendation.direction = "short"
  THEN currentPrice >= order.targetEntry
  ELSE FALSE

\* tolerance = 0.001: long triggers at currentPrice <= targetEntry * 1.001,
\* short at currentPrice >= targetEntry * 0.999.
Triggered(order, currentPrice) ==
  IF order.recommendation.direction = "long"
  THEN currentPrice * 1000 <= order.targetEntry * 1001
  ELSE IF order.recommendation.direction = "short"
  THEN currentPrice * 1000 >= order.targetEntry * 999
  ELSE FALSE

FilledOrder(order, currentPrice) ==
  [order.recommendation EXCEPT !.entryPrice = currentPrice,
                               !.executionStrategy = "market"]

RECURSIVE CheckScan(_, _, _, _)
CheckScan(rest, kept, currentPrice, t) ==
  IF rest = <<>>
  THEN [store |-> kept, filled |-> NoSignal, id |-> 0]
  ELSE LET order == Head(rest) IN
       IF Expired(order, t)
       THEN CheckScan(Tail(rest), kept, currentPrice, t)
       ELSE IF Triggered(order, currentPrice)
       THEN [store |-> kept \o Tail(rest),
             filled |-> FilledOrder(order, currentPrice), id |-> order.id]
       ELSE CheckScan(Tail(rest), Append(kept, order), currentPrice, t)

\* A variant of checkPendingOrders: expired entries are passed over but
\* left in the Map.
checkPendingOrdersKeeping(store, currentPrice, t) ==
  LET r == CheckScan(store, <<>>, currentPrice, t)
  IN [r EXCEPT !.store = SelectSeq(store, LAMBDA o : o.id # r.id)]

\* A variant of checkPendingOrders: every entry the price has reached is
\* removed, the first one is returned.
checkPendingOrdersDrain(store, currentPrice, t) ==
  LET r == CheckScan(store, <<>>, currentPrice, t)
  IN [r EXCEPT !.store = SelectSeq(r.store, LAMBDA o : ~Triggered(o, currentPrice))]

\* checkPendingOrders: the Map after the call, the returned recommendation
\* (NoSignal for null) and the id of the entry it came from (0 for null).
checkPendingOrders(store, currentPrice, t) ==
  CheckScan(store, <<>>, currentPrice, t)

RECURSIVE clearExpiredOrders(_, _)
clearExpiredOrders(store, t) ==
  IF store = <<>> THEN <<>>
  ELSE IF Expired(Head(store), t) THEN clearExpiredOrders(Tail(store), t)
  ELSE <<Head(store)>> \o clearExpiredOrders(Tail(store), t)

RECURSIVE cancelOrder(_, _)
cancelOrder(store, orderId) ==
  IF store = <<>> THEN <<>>
  ELSE IF Head(store).id = orderId THEN Tail(store)
  ELSE <<Head(store)>> \o cancelOrder(Tail(store), orderId)

clearAllOrders(store) == <<>>

PendingIds(store) == {store[i].id : i \in 1..Len(store)}
PendingOfDirection(store, dir) ==
  {i \in 1..Len(store) : store[i].recommendation.direction = dir}

(***************************************************************************)
(* Settings, trades and exchange orders.                                   *)
(***************************************************************************)
Settings(auto, concurrent) ==
  [leverage |-> DefaultLeverage, balanceAllocation |-> DefaultBalanceAllocation,
   concurrentTrades |-> concurrent, autoTradingEnabled |-> auto]

NoSettings == Settings(FALSE, 0)

NoPerformance ==
  [exists |-> FALSE, totalPnl |-> 0, totalTrades |-> 0,
   winningTrades |-> 0, losingTrades |-> 0, winRate |-> 0]

\* storage.getActiveTrades: the trades with status open; an empty list when
\* the query fails.
\* A variant of OpenTradeIds: the query does not filter on the status.
AllTradeIds == {i \in 1..Len(trades) : TRUE}

OpenTradeIds == {i \in 1..Len(trades) : trades[i].status = "open"}
getActiveTrades(ok) == IF ok THEN OpenTradeIds ELSE {}

\* The ids of a set of trades, newest first.
RECURSIVE Descending(_)
Descending(ids) ==
  IF ids = {} THEN <<>>
  ELSE LET m == CHOOSE i \in ids : \A j \in ids : j <= i
       IN <<m>> \o Descending(ids \ {m})

\* A variant of OrderIdOf: the id of the answer is not read.
OrderIdMissing(orderResult) == 0

\* orderResult?.result?.id || orderResult?.id || null  (0 stands for null)
OrderIdOf(orderResult) == IF orderResult.hasId THEN orderResult.id ELSE 0

(***************************************************************************)
(* Callbacks and calls in progress.  m1, m2 are invocations of the monitor *)
(* cron callback, a1, a2 of the analysis cron callback; api is a caller    *)
(* that uses executeTrade and the LimitOrderManager directly.              *)
(***************************************************************************)
MonSlots == {"m1", "m2"}
AnaSlots == {"a1", "a2"}
Api == "api"
Procs == MonSlots \cup AnaSlots \cup {Api}

NoRet == [value |-> "none", reason |-> "none", id |-> 0]
NoSnap ==
  [trades |-> <<>>, pendingOrders |-> <<>>, exchangeOrders |-> <<>>, now |-> 0,
   service |-> "none"]

InitLoc ==
  [signal |-> NoSignal, cfg |-> NoSettings, quantity |-> 0, price |-> 0,
   orderId |-> 0, pendingCount |-> 0, trigId |-> 0, active |-> <<>>,
   ret |-> NoRet, snap |-> NoSnap, sanitized |-> NoSignal,
   earlier |-> <<>>]

Running(p) == pc[p] # "idle"

Init ==
  /\ now = 0
  /\ settings = Settings(FALSE, DefaultConcurrentTrades)
  /\ pendingOrders = <<>>
  /\ limitSeq = 0
  /\ trades = <<>>
  /\ performance = NoPerformance
  /\ exchangeOrders = <<>>
  /\ isAnalyzing = FALSE
  /\ isMonitoring = FALSE
  /\ pc = [p \in Procs |-> "idle"]
  /\ loc = [p \in Procs |-> InitLoc]

\* A variant of Finish: the pass ends without its finally block.
FinishKeepingLatch(p, ret) ==
  /\ pc' = [pc EXCEPT ![p] = "idle"]
  /\ loc' = [loc EXCEPT ![p] =
               IF p = Api
               THEN [InitLoc EXCEPT !.ret = ret, !.snap = loc[p].snap]
               ELSE InitLoc]
  /\ UNCHANGED <<isAnalyzing, isMonitoring>>

(***************************************************************************)
(* The end of a pass or call of p.  A cron callback runs its finally block *)
(* (the latch is released); the direct caller keeps the returned value.    *)
(***************************************************************************)
Finish(p, ret) ==
  /\ pc' = [pc EXCEPT ![p] = "idle"]
  /\ loc' = [loc EXCEPT ![p] =
               IF p = Api
               THEN [InitLoc EXCEPT !.ret = ret, !.snap = loc[p].snap]
               ELSE InitLoc]
  /\ isAnalyzing' = IF p \in AnaSlots THEN FALSE ELSE isAnalyzing
  /\ isMonitoring' = IF p \in MonSlots THEN FALSE ELSE isMonitoring

\* A variant of Null: the call throws instead of returning null.
Thrown(reason) == [value |-> "throw", reason |-> reason, id |-> 0]

\* `return null`
Null(reason) == [value |-> "null", reason |-> reason, id |-> 0]

(***************************************************************************)
(* executeTrade (src/server/trading-engine.ts:251-496): one action for the *)
(* read of the active trades, one for the reads of the exchange up to the  *)
(* branch on the strategy, one for the placement and the Trade row.        *)
(***************************************************************************)

\* Position size: floor(balance * allocation% * leverage / (0.01 * entry)),
\* balance and entry in ticks.
Quantity(balance, cfg, entryPrice) ==
  (balance * cfg.balanceAllocation * cfg.leverage) \div entryPrice

\* Lines 325-343: stop and target on the right sides of the entry.
ValidLevels(signal) ==
  IF signal.direction = "long"
  THEN signal.takeProfit > signal.entryPrice /\ signal.stopLoss < signal.entryPrice
  ELSE signal.takeProfit < signal.entryPrice /\ signal.stopLoss > signal.entryPrice

\* Lines 268-343: the outcome of the collateral, product, leverage, size and
\* level checks, in the order of the code.  "ok" lets the call go on.
CollateralOutcome(signal, cfg, x) ==
  IF ~x.walletOk THEN "error"
  ELSE IF ~x.hasCollateral THEN "no_collateral"
  ELSE IF x.balance <= 0 THEN "insufficient_balance"
  ELSE IF ~x.productsOk THEN "error"
  ELSE IF ~x.productFound THEN "product_not_found"
  ELSE IF ~x.leverageOk THEN "error"
  ELSE IF Quantity(x.balance, cfg, signal.entryPrice) < 1 THEN "too_small"
  ELSE IF ~ValidLevels(signal) THEN "invalid_levels"
  ELSE "ok"

\* What getWalletBalance, getProducts and setProductLeverage can answer: all
\* well with each balance, or exactly one of them failing.
ExchangeAnswer(walletOk, hasCollateral, balance, productsOk, productFound, leverageOk) ==
  [walletOk |-> walletOk, hasCollateral |-> hasCollateral, balance |-> balance,
   productsOk |-> productsOk, productFound |-> productFound,
   leverageOk |-> leverageOk]

ExchangeAnswers ==
  {ExchangeAnswer(TRUE, TRUE, b, TRUE, TRUE, TRUE) : b \in BalanceSet} \cup
  {ExchangeAnswer(FALSE, TRUE, 39, TRUE, TRUE, TRUE),
   ExchangeAnswer(TRUE, FALSE, 39, TRUE, TRUE, TRUE),
   ExchangeAnswer(TRUE, TRUE, 39, FALSE, TRUE, TRUE),
   ExchangeAnswer(TRUE, TRUE, 39, TRUE, FALSE, TRUE),
   ExchangeAnswer(TRUE, TRUE, 39, TRUE, TRUE, FALSE)}

\* Lines 261-266.
\* A variant of LimitReached: the limit is reached only when it is exceeded.
LimitExceeded(activeCount, cfg) == activeCount > cfg.concurrentTrades

LimitReached(activeCount, cfg) == activeCount >= cfg.concurrentTrades

\* The call keeps the list it has read in activeTrades (loc.active).
ET_Active(p) ==
  /\ pc[p] = "et_active"
  /\ \E ok \in BOOLEAN :
       LET activeTrades == getActiveTrades(ok) IN
       IF LimitReached(Cardinality(activeTrades), loc[p].cfg)
       THEN /\ Finish(p, Null("limit_reached"))
            /\ UNCHANGED <<now, settings, pendingOrders, limitSeq, trades,
                           performance, exchangeOrders>>
       ELSE /\ pc' = [pc EXCEPT ![p] = "et_price"]
            /\ loc' = [loc EXCEPT ![p].active = Descending(activeTrades)]
            /\ UNCHANGED <<now, settings, pendingOrders, limitSeq, trades,
                           performance, exchangeOrders, isAnalyzing,
                           isMonitoring>>

\* The prices getCurrentPrice can answer: any of PriceSet to a direct
\* caller, one of the two entries to a scheduled pass.
SysPrices == EntrySet
Prices(p) == IF p = Api THEN PriceSet ELSE SysPrices

\* Lines 434-448: a long limit must sit below the current price, a short
\* limit above it.
Reachable(signal, currentPrice) ==
  IF signal.direction = "long"
  THEN currentPrice > signal.entryPrice
  ELSE currentPrice < signal.entryPrice

\* deviation = |entry - current| / current; < 0.003 and > 0.03 (lines 451, 457)
TooClose(signal, currentPrice) ==
  Abs(signal.entryPrice - currentPrice) * 1000 < 3 * currentPrice

\* A variant of TooFar: no upper threshold.
TooFarNever(signal, currentPrice) == FALSE

TooFar(signal, currentPrice) ==
  Abs(signal.entryPrice - currentPrice) * 100 > 3 * currentPrice

\* Lines 366-372: stop 0.5% from the market entry, target at twice the risk.
AdjustedSL(direction, marketEntry) ==
  IF direction = "long" THEN (marketEntry * 995) \div 1000
  ELSE (marketEntry * 1005) \div 1000
AdjustedTP(direction, marketEntry) ==
  IF direction = "long"
  THEN marketEntry + (marketEntry - AdjustedSL(direction, marketEntry)) * 2
  ELSE marketEntry - (AdjustedSL(direction, marketEntry) - marketEntry) * 2

\* A variant of DeferredReturn: the id of the queued order is returned.
DeferredReturnsId(limitOrderId) ==
  [value |-> "id", reason |-> "deferred", id |-> limitOrderId]

\* Line 490: what executeTrade returns after queueing a limit order.
DeferredReturn(limitOrderId) == Null("deferred")

\* Lines 268-491: the wallet, product, leverage, size and level checks, then
\* getCurrentPrice and the market or limit branch.  None of the awaited
\* calls touches the state of the bot, so they make one step.
ET_Price(p) ==
  /\ pc[p] = "et_price"
  /\ \E x \in ExchangeAnswers :
       LET signal == loc[p].signal
           outcome == CollateralOutcome(signal, loc[p].cfg, x)
       IN
       IF outcome # "ok"
       THEN /\ Finish(p, Null(outcome))
            /\ UNCHANGED <<pendingOrders, limitSeq>>
       ELSE
       \E priceOk \in BOOLEAN :
       IF ~priceOk
       THEN /\ Finish(p, Null("price_unavailable"))
            /\ UNCHANGED <<pendingOrders, limitSeq>>
       ELSE
       \E currentPrice \in Prices(p) :
       IF signal.executionStrategy = "market"
       THEN /\ pc' = [pc EXCEPT ![p] = "et_place"]
            /\ loc' = [loc EXCEPT ![p].price = currentPrice,
                                  ![p].quantity =
                                    Quantity(x.balance, loc[p].cfg, signal.entryPrice)]
            /\ UNCHANGED <<pendingOrders, limitSeq, isAnalyzing, isMonitoring>>
       ELSE IF ~Reachable(signal, currentPrice)
       THEN /\ Finish(p, Null("unreachable"))
            /\ UNCHANGED <<pendingOrders, limitSeq>>
       ELSE IF TooClose(signal, currentPrice)
       THEN \* executed as a market order by a recursive call
            /\ pc' = [pc EXCEPT ![p] = "et_active"]
            /\ loc' = [loc EXCEPT ![p].signal.executionStrategy = "market"]
            /\ UNCHANGED <<pendingOrders, limitSeq, isAnalyzing, isMonitoring>>
       ELSE IF TooFar(signal, currentPrice)
       THEN /\ Finish(p, Null("too_far"))
            /\ UNCHANGED <<pendingOrders, limitSeq>>
       ELSE /\ limitSeq < MaxLimitOrders
            /\ limitSeq' = limitSeq + 1
            /\ pendingOrders' = addPendingOrder(pendingOrders, limitSeq + 1,
                                                signal, currentPrice, now)
            /\ Finish(p, DeferredReturn(limitSeq + 1))
  /\ UNCHANGED <<now, settings, trades, performance, exchangeOrders>>

\* Line 380-390: the exchange accepts the order and answers with its id, or
\* the call throws.  The answer is that of the exchange collaborator.
PlaceLimitOrderWithBracket(orders) ==
  [hasId |-> TRUE, id |-> Len(orders) + 1]

\* A variant of NewTrade: entry, stop and target are the recommendation's.
NewTradeAsRecommended(id, signal, cfg, quantity, marketEntry, orderId, t) ==
  [id |-> id, direction |-> signal.direction, entryPrice |-> signal.entryPrice,
   quantity |-> quantity, leverage |-> cfg.leverage,
   stopLoss |-> signal.stopLoss, takeProfit |-> signal.takeProfit,
   status |-> "open", deltaOrderId |-> orderId, entryTime |-> t,
   exitPrice |-> 0, exitTime |-> 0, pnl |-> 0, pnlPercentage |-> 0]

\* Lines 392-408: the Trade row written by createTrade.
NewTrade(id, signal, cfg, quantity, marketEntry, orderId, t) ==
  [id |-> id, direction |-> signal.direction, entryPrice |-> marketEntry,
   quantity |-> quantity, leverage |-> cfg.leverage,
   stopLoss |-> AdjustedSL(signal.direction, marketEntry),
   takeProfit |-> AdjustedTP(signal.direction, marketEntry),
   status |-> "open", deltaOrderId |-> orderId, entryTime |-> t,
   exitPrice |-> 0, exitTime |-> 0, pnl |-> 0, pnlPercentage |-> 0]

\* A variant of PlacementFailed: the Trade row is written although the
\* placement has thrown.
PlacementFailedAfterCreate(p) ==
  /\ trades' = Append(trades,
                      NewTrade(Len(trades) + 1, loc[p].signal, loc[p].cfg,
                               loc[p].quantity, loc[p].price, 0, now))
  /\ Finish(p, Null("placement_failed"))
  /\ UNCHANGED exchangeOrders

\* Lines 492-495: the catch of executeTrade after placeLimitOrderWithBracket
\* has thrown: the call ends with null, createTrade is never reached.
PlacementFailed(p) ==
  /\ Finish(p, Null("placement_failed"))
  /\ UNCHANGED <<trades, exchangeOrders>>

\* A variant of sendTradeExecutedEmail: a failure of the mail service
\* rejects the promise of the call.
sendTradeExecutedEmailRejecting(sent) ==
  IF sent THEN "resolved" ELSE "rejected"

\* email-service.ts 38-62: the send is inside a try whose catch only logs,
\* so the promise of the call resolves whether the mail was sent or not.
sendTradeExecutedEmail(sent) == "resolved"

\* email-service.ts 64-91: the same for the mail of a closed trade.
sendTradeClosedEmail(sent) == "resolved"

\* Lines 380-421: placeLimitOrderWithBracket, then createTrade, then
\* sendTradeExecutedEmail.  Nothing reads the orders of the exchange between
\* the placement and createTrade, so the calls make one step.  The returned
\* value notes whether the mail was sent.
ET_PlaceWithin(p, room) ==
  /\ pc[p] = "et_place"
  /\ \E placed \in BOOLEAN, stored \in BOOLEAN, sent \in BOOLEAN :
       IF ~placed
       THEN PlacementFailed(p)
       ELSE LET orderResult == PlaceLimitOrderWithBracket(exchangeOrders)
                trade == NewTrade(Len(trades) + 1, loc[p].signal, loc[p].cfg,
                                  loc[p].quantity, loc[p].price,
                                  OrderIdOf(orderResult), now)
            IN /\ Len(exchangeOrders) < room
               /\ exchangeOrders' = Append(exchangeOrders, orderResult)
               /\ IF stored
                  THEN /\ trades' = Append(trades, trade)
                       /\ IF sendTradeExecutedEmail(sent) = "resolved"
                          THEN Finish(p, [value |-> "trade",
                                          reason |-> "executed",
                                          id |-> trade.id,
                                          mail |-> IF sent THEN "sent"
                                                   ELSE "failed"])
                          ELSE Finish(p, Null("error"))
                  ELSE /\ Finish(p, Null("error"))
                       /\ UNCHANGED trades
  /\ UNCHANGED <<now, settings, pendingOrders, limitSeq, performance>>

\* The exchange takes at most MaxExchangeOrders orders.
ET_Place(p) == ET_PlaceWithin(p, MaxExchangeOrders)

executeTrade(p) == ET_Active(p) \/ ET_Price(p) \/ ET_Place(p)

(***************************************************************************)
(* The clock advances by d minutes.  The direct caller sees an order        *)
(* exactly at its expiry time and one minute after it; the scheduled jobs  *)
(* see it one minute after its expiry time.                                *)
(***************************************************************************)
Tick(d) ==
  /\ now + d <= MaxTime
  /\ now' = now + d
  /\ UNCHANGED <<settings, pendingOrders, limitSeq, trades, performance,
                 exchangeOrders, isAnalyzing, isMonitoring, pc, loc>>

(***************************************************************************)
(* Direct use of executeTrade and of the LimitOrderManager by one caller,  *)
(* one call at a time.  The caller records the state before each call      *)
(* (snap) and the returned value (ret).                                    *)
(***************************************************************************)
\* What a direct caller notes before a call: the trades, the pending orders,
\* the orders of the exchange and the time of the call; service is how the
\* recommendation service answered in the call, for the calls that use it.
Snapshot ==
  [trades |-> trades, pendingOrders |-> pendingOrders,
   exchangeOrders |-> exchangeOrders, now |-> now, service |-> "none"]

ApiSettings == {Settings(TRUE, c) : c \in ConcurrentSet}

\* The limit recommendations and creation prices that pass executeTrade's
\* limit validation: the only arguments addPendingOrder is called with.
ValidLimit(signal, currentPrice) ==
  /\ signal.executionStrategy = "limit"
  /\ ValidLevels(signal)
  /\ Reachable(signal, currentPrice)
  /\ ~TooClose(signal, currentPrice)
  /\ ~TooFar(signal, currentPrice)

ApiExecuteTrade ==
  /\ pc[Api] = "idle"
  /\ \E signal \in TradableSignals, cfg \in ApiSettings :
       loc' = [loc EXCEPT ![Api] =
                 [InitLoc EXCEPT !.signal = signal, !.cfg = cfg,
                                 !.snap = Snapshot]]
  /\ pc' = [pc EXCEPT ![Api] = "et_active"]
  /\ UNCHANGED <<now, settings, pendingOrders, limitSeq, trades, performance,
                 exchangeOrders, isAnalyzing, isMonitoring>>

ApiAddPendingOrder ==
  /\ pc[Api] = "idle"
  /\ limitSeq < MaxLimitOrders
  /\ \E signal \in TradableSignals, currentPrice \in PriceSet :
       /\ ValidLimit(signal, currentPrice)
       /\ pendingOrders' = addPendingOrder(pendingOrders, limitSeq + 1, signal,
                                           currentPrice, now)
       /\ loc' = [loc EXCEPT ![Api] =
                    [InitLoc EXCEPT !.signal = signal, !.snap = Snapshot,
                                    !.ret = [value |-> "id", reason |-> "added",
                                             id |-> limitSeq + 1]]]
  /\ limitSeq' = limitSeq + 1
  /\ UNCHANGED <<now, settings, trades, performance, exchangeOrders,
                 isAnalyzing, isMonitoring, pc>>

ApiCheckPendingOrders ==
  /\ pc[Api] = "idle"
  /\ \E currentPrice \in TriggerPrices :
       LET r == checkPendingOrders(pendingOrders, currentPrice, now) IN
       /\ pendingOrders' = r.store
       /\ loc' = [loc EXCEPT ![Api] =
                    [InitLoc EXCEPT !.signal = r.filled, !.trigId = r.id,
                                    !.price = currentPrice, !.snap = Snapshot,
                                    !.ret = [value |-> IF r.id = 0 THEN "null"
                                                       ELSE "signal",
                                             reason |-> "checked", id |-> r.id]]]
  /\ UNCHANGED <<now, settings, limitSeq, trades, performance, exchangeOrders,
                 isAnalyzing, isMonitoring, pc>>

ApiClearExpiredOrders ==
  /\ pc[Api] = "idle"
  /\ pendingOrders' = clearExpiredOrders(pendingOrders, now)
  /\ loc' = [loc EXCEPT ![Api] =
               [InitLoc EXCEPT !.snap = Snapshot,
                               !.ret = [value |-> "void", reason |-> "cleared",
                                        id |-> 0]]]
  /\ UNCHANGED <<now, settings, limitSeq, trades, performance, exchangeOrders,
                 isAnalyzing, isMonitoring, pc>>

ApiCancelOrder ==
  /\ pc[Api] = "idle"
  /\ \E orderId \in 1..MaxLimitOrders :
       /\ pendingOrders' = cancelOrder(pendingOrders, orderId)
       /\ loc' = [loc EXCEPT ![Api] =
                    [InitLoc EXCEPT !.snap = Snapshot,
                                    !.ret = [value |-> IF orderId \in PendingIds(pendingOrders)
                                                       THEN "true" ELSE "false",
                                             reason |-> "cancelled", id |-> orderId]]]
  /\ UNCHANGED <<now, settings, limitSeq, trades, performance, exchangeOrders,
                 isAnalyzing, isMonitoring, pc>>

ApiClearAllOrders ==
  /\ pc[Api] = "idle"
  /\ pendingOrders' = clearAllOrders(pendingOrders)
  /\ loc' = [loc EXCEPT ![Api] =
               [InitLoc EXCEPT !.snap = Snapshot,
                               !.ret = [value |-> "void", reason |-> "cleared_all",
                                        id |-> 0]]]
  /\ UNCHANGED <<now, settings, limitSeq, trades, performance, exchangeOrders,
                 isAnalyzing, isMonitoring, pc>>

\* The LimitOrderManager alone, called directly, with the clock.
NextStore ==
  \/ ApiAddPendingOrder
  \/ ApiCheckPendingOrders
  \/ ApiClearExpiredOrders
  \/ ApiCancelOrder
  \/ ApiClearAllOrders
  \/ \E d \in {EXPIRY_MINUTES, EXPIRY_MINUTES + 1} : Tick(d)

SpecStore == Init /\ [][NextStore]_vars

\* executeTrade and addPendingOrder, called directly.
NextExec ==
  \/ ApiExecuteTrade
  \/ executeTrade(Api)
  \/ ApiAddPendingOrder

SpecExec == Init /\ [][NextExec]_vars

(***************************************************************************)
(* The scheduler (src/server/research-engine.ts:146-283) and monitorTrades *)
(* (src/server/trading-engine.ts:498-658).                                 *)
(***************************************************************************)

\* The slot a new invocation of a cron callback takes: the first idle one.
FreeSlot(s, first) == pc[s] = "idle" /\ (s = first \/ pc[first] # "idle")

\* A variant of MonitorLatched: the latch is not tested.
MonitorNeverLatched == FALSE

\* A variant of MonitorLatched: the two jobs share one latch.
EitherLatched == isMonitoring \/ isAnalyzing

\* `if (isMonitoring) return;` and `if (isAnalyzing) return;`: the callback
\* tests its latch before its first await, so a trigger that finds the latch
\* set returns in the step it arrives in.
MonitorLatched == isMonitoring
AnalysisLatched == isAnalyzing

\* PUT /api/settings: the user changes the settings at any time.
UpdateSettings ==
  /\ \E auto \in BOOLEAN :
       settings' = Settings(auto, DefaultConcurrentTrades)
  /\ UNCHANGED <<now, pendingOrders, limitSeq, trades, performance,
                 exchangeOrders, isAnalyzing, isMonitoring, pc, loc>>

\* A variant of CleanupJob: the job clears the whole store.
CleanupJobClearsAll ==
  /\ pendingOrders' = clearAllOrders(pendingOrders)
  /\ UNCHANGED <<now, settings, limitSeq, trades, performance, exchangeOrders,
                 isAnalyzing, isMonitoring, pc, loc>>

\* A variant of CleanupJob: the job clears nothing.
CleanupJobIdle ==
  /\ pendingOrders' = pendingOrders
  /\ UNCHANGED <<now, settings, limitSeq, trades, performance, exchangeOrders,
                 isAnalyzing, isMonitoring, pc, loc>>

\* Clean expired limit orders every 2 minutes (lines 170-176).
CleanupJob ==
  /\ pendingOrders' = clearExpiredOrders(pendingOrders, now)
  /\ UNCHANGED <<now, settings, limitSeq, trades, performance, exchangeOrders,
                 isAnalyzing, isMonitoring, pc, loc>>

\* ---- analysis job (lines 179-283) ----

\* How the chat completion of analyzeMarkets ends (groq-client.ts 1182-1215):
\* an answer that parses, a request that throws, no content, content that
\* is not JSON.
ServiceOutcomes == {"ok", "request_error", "empty", "unparsable"}

\* The catch of analyzeMarkets (groq-client.ts 1223-1241): a recommendation
\* of no trade at the current price.
SafeNoTrade(currentPrice) ==
  [direction |-> "none", entryPrice |-> currentPrice,
   stopLoss |-> currentPrice, takeProfit |-> currentPrice,
   confidence |-> 30, executionStrategy |-> "market"]

\* analyzeMarkets, from the outcome of the service on: sanitized is what
\* enforceRiskRewardAndSanitize makes of the parsed answer.
analyzeMarkets(outcome, sanitized, currentPrice) ==
  IF outcome = "ok" THEN sanitized ELSE SafeNoTrade(currentPrice)

\* A variant of SkipsTrade: every recommendation goes on to execution.
SkipsNothing(analysis) == FALSE

\* research-engine.ts 237-247: the two checks that end the pass.
SkipsTrade(analysis) ==
  analysis.confidence < MinConfidence \/ analysis.direction = "none"

AnalysisTrigger(s) ==
  /\ s \in AnaSlots
  /\ FreeSlot(s, "a1")
  /\ IF AnalysisLatched
     THEN UNCHANGED <<isAnalyzing, pc>>
     ELSE /\ isAnalyzing' = TRUE
          /\ pc' = [pc EXCEPT ![s] = "ana_research"]
  /\ UNCHANGED <<now, settings, pendingOrders, limitSeq, trades, performance,
                 exchangeOrders, isMonitoring, loc>>

\* Lines 183-248: getSettings; auto-trading disabled or not the minute of the
\* trading mode: return.  Then researchMarkets, which answers null or a
\* recommendation; low confidence and direction none end the pass.
AnaResearch(s) ==
  /\ pc[s] = "ana_research"
  /\ \/ /\ \E settingsOk \in BOOLEAN, shouldAnalyze \in BOOLEAN :
             ~(settingsOk /\ settings.autoTradingEnabled /\ shouldAnalyze)
        /\ Finish(s, NoRet)
     \/ /\ settings.autoTradingEnabled
        /\ \/ Finish(s, NoRet)
           \/ \E analysis \in AnalysisSignals :
                IF SkipsTrade(analysis)
                THEN Finish(s, NoRet)
                ELSE /\ pc' = [pc EXCEPT ![s] = "ana_active"]
                     /\ loc' = [loc EXCEPT ![s].signal = analysis,
                                           ![s].cfg = settings]
                     /\ UNCHANGED <<isAnalyzing, isMonitoring>>
  /\ UNCHANGED <<now, settings, pendingOrders, limitSeq, trades, performance,
                 exchangeOrders>>

\* A variant of SameDirectionOrder: the pending orders are not looked at.
NoSameDirectionOrder(store, direction) == FALSE

\* Lines 263-272: a pending limit order of the direction of the analysis.
SameDirectionOrder(store, direction) == PendingOfDirection(store, direction) # {}

\* Lines 250-276: concurrent-trade limit, same-direction check, executeTrade.
AnaActive(s) ==
  /\ pc[s] = "ana_active"
  /\ \E ok \in BOOLEAN :
       IF \/ LimitReached(Cardinality(getActiveTrades(ok)), loc[s].cfg)
          \/ SameDirectionOrder(pendingOrders, loc[s].signal.direction)
       THEN Finish(s, NoRet)
       ELSE /\ pc' = [pc EXCEPT ![s] = "et_active"]
            /\ UNCHANGED <<loc, isAnalyzing, isMonitoring>>
  /\ UNCHANGED <<now, settings, pendingOrders, limitSeq, trades, performance,
                 exchangeOrders>>

\* The body of the analysis callback from researchMarkets on (lines 224-248),
\* run by a caller who notes how the recommendation service answered.
ApiAnalysisPass ==
  /\ pc[Api] = "idle"
  /\ \E outcome \in ServiceOutcomes, answer \in AnalysisSignals,
        currentPrice \in PriceSet, cfg \in ApiSettings :
       LET analysis == analyzeMarkets(outcome, answer, currentPrice)
           noted == [Snapshot EXCEPT !.service = outcome]
       IN IF SkipsTrade(analysis)
          THEN /\ loc' = [loc EXCEPT ![Api] =
                            [InitLoc EXCEPT !.snap = noted,
                                            !.ret = Null("no_trade")]]
               /\ pc' = pc
          ELSE /\ loc' = [loc EXCEPT ![Api] =
                            [InitLoc EXCEPT !.signal = analysis, !.cfg = cfg,
                                            !.snap = noted]]
               /\ pc' = [pc EXCEPT ![Api] = "ana_active"]
  /\ UNCHANGED <<now, settings, pendingOrders, limitSeq, trades, performance,
                 exchangeOrders, isAnalyzing, isMonitoring>>

NextAnalysis == ApiAnalysisPass \/ AnaActive(Api) \/ executeTrade(Api)

SpecAnalysis == Init /\ [][NextAnalysis]_vars

\* ---- monitor job (lines 150-167) ----

MonitorTrigger(s) ==
  /\ s \in MonSlots
  /\ FreeSlot(s, "m1")
  /\ IF MonitorLatched
     THEN UNCHANGED <<isMonitoring, pc, loc>>
     ELSE /\ isMonitoring' = TRUE
          /\ pc' = [pc EXCEPT ![s] = "mon_active"]
          /\ loc' = [loc EXCEPT ![s].pendingCount = Len(pendingOrders)]
  /\ UNCHANGED <<now, settings, pendingOrders, limitSeq, trades, performance,
                 exchangeOrders, isAnalyzing>>

MonActive(s) ==
  /\ pc[s] = "mon_active"
  /\ \E ok \in BOOLEAN :
       IF loc[s].pendingCount > 0 \/ Cardinality(getActiveTrades(ok)) > 0
       THEN /\ pc' = [pc EXCEPT ![s] = "mt_price"]
            /\ loc' = [loc EXCEPT ![s].pendingCount = 0]
            /\ UNCHANGED <<isAnalyzing, isMonitoring>>
       ELSE Finish(s, NoRet)
  /\ UNCHANGED <<now, settings, pendingOrders, limitSeq, trades, performance,
                 exchangeOrders>>

\* monitorTrades, lines 500-525: getCurrentPrice and checkPendingOrders.
MtPrice(s) ==
  /\ pc[s] = "mt_price"
  /\ \E priceOk \in BOOLEAN, currentPrice \in SysPrices :
       IF ~priceOk
       THEN /\ pc' = [pc EXCEPT ![s] = "mt_trades"]
            /\ UNCHANGED <<pendingOrders, loc>>
       ELSE LET r == checkPendingOrders(pendingOrders, currentPrice, now) IN
            /\ pendingOrders' = r.store
            /\ IF r.id # 0
               THEN /\ pc' = [pc EXCEPT ![s] = "mt_settings"]
                    /\ loc' = [loc EXCEPT ![s].signal = r.filled,
                                          ![s].trigId = r.id]
               ELSE /\ pc' = [pc EXCEPT ![s] = "mt_trades"]
                    /\ UNCHANGED loc
  /\ UNCHANGED <<now, settings, limitSeq, trades, performance, exchangeOrders,
                 isAnalyzing, isMonitoring>>

\* A variant of MtSettings: without settings the pass goes on to the open
\* trades instead of returning.
MtSettingsFallsThrough(s) ==
  /\ pc[s] = "mt_settings"
  /\ \E settingsOk \in BOOLEAN :
       IF settingsOk
       THEN /\ pc' = [pc EXCEPT ![s] = "et_active"]
            /\ loc' = [loc EXCEPT ![s].cfg = settings]
       ELSE /\ pc' = [pc EXCEPT ![s] = "mt_trades"]
            /\ UNCHANGED loc
  /\ UNCHANGED <<now, settings, pendingOrders, limitSeq, trades, performance,
                 exchangeOrders, isAnalyzing, isMonitoring>>

\* Lines 507-521: getSettings, executeTrade of the triggered order, return.
MtSettings(s) ==
  /\ pc[s] = "mt_settings"
  /\ \E settingsOk \in BOOLEAN :
       IF settingsOk
       THEN /\ pc' = [pc EXCEPT ![s] = "et_active"]
            /\ loc' = [loc EXCEPT ![s].cfg = settings]
            /\ UNCHANGED <<isAnalyzing, isMonitoring>>
       ELSE Finish(s, NoRet)
  /\ UNCHANGED <<now, settings, pendingOrders, limitSeq, trades, performance,
                 exchangeOrders>>

\* Lines 527-532.
MtTrades(s) ==
  /\ pc[s] = "mt_trades"
  /\ \E ok \in BOOLEAN :
       LET activeTrades == getActiveTrades(ok) IN
       IF activeTrades = {}
       THEN Finish(s, NoRet)
       ELSE /\ pc' = [pc EXCEPT ![s] = "mt_loop"]
            /\ loc' = [loc EXCEPT ![s].active = Descending(activeTrades)]
            /\ UNCHANGED <<isAnalyzing, isMonitoring>>
  /\ UNCHANGED <<now, settings, pendingOrders, limitSeq, trades, performance,
                 exchangeOrders>>

\* What getOrderStatus and getPositions answer for one trade, and whether
\* the storage writes of the iteration succeed.
OrderAnswer(statusOk, state, filled, fill, positionsOk, activePosition, storeOk) ==
  [statusOk |-> statusOk, state |-> state, filled |-> filled, fill |-> fill,
   positionsOk |-> positionsOk, activePosition |-> activePosition,
   storeOk |-> storeOk, perf |-> "ok"]

OrderAnswers ==
  {OrderAnswer(FALSE, "none", FALSE, "none", TRUE, FALSE, TRUE),
   OrderAnswer(TRUE, "none", FALSE, "none", TRUE, FALSE, TRUE),
   OrderAnswer(TRUE, "open", FALSE, "none", TRUE, TRUE, TRUE),
   OrderAnswer(TRUE, "cancelled", FALSE, "none", TRUE, FALSE, TRUE),
   OrderAnswer(TRUE, "cancelled", FALSE, "none", TRUE, FALSE, FALSE),
   OrderAnswer(TRUE, "closed", TRUE, "stop", TRUE, TRUE, TRUE),
   OrderAnswer(TRUE, "closed", TRUE, "none", TRUE, FALSE, TRUE),
   OrderAnswer(TRUE, "closed", FALSE, "stop", TRUE, FALSE, TRUE),
   OrderAnswer(TRUE, "closed", TRUE, "stop", TRUE, FALSE, TRUE),
   OrderAnswer(TRUE, "closed", TRUE, "target", TRUE, FALSE, TRUE),
   OrderAnswer(TRUE, "closed", TRUE, "entry", TRUE, FALSE, TRUE),
   OrderAnswer(TRUE, "closed", TRUE, "target", FALSE, FALSE, TRUE),
   OrderAnswer(TRUE, "closed", TRUE, "target", TRUE, FALSE, FALSE),
   [OrderAnswer(TRUE, "closed", TRUE, "target", TRUE, FALSE, TRUE)
      EXCEPT !.perf = "read_failed"],
   [OrderAnswer(TRUE, "closed", TRUE, "stop", TRUE, FALSE, TRUE)
      EXCEPT !.perf = "write_failed"]}

\* One dollar, in ticks: how far beyond the stop a slipped fill lies.
Slippage == 100

\* average_fill_price of the answer; 0 when the answer carries none.
\* "slipped" is a fill one unit of Slippage beyond the stop, "middle" a fill
\* halfway between stop and target.
FillPrice(trade, fill) ==
  IF fill = "stop" THEN trade.stopLoss
  ELSE IF fill = "target" THEN trade.takeProfit
  ELSE IF fill = "entry" THEN trade.entryPrice
  ELSE IF fill = "slipped"
  THEN IF trade.direction = "long" THEN trade.stopLoss - Slippage
       ELSE trade.stopLoss + Slippage
  ELSE IF fill = "middle" THEN (trade.stopLoss + trade.takeProfit) \div 2
  ELSE 0

\* Lines 538-547: a trade with an order id that is at least 30 seconds old;
\* getOrderStatus and getPositions are called for such trades only.
Eligible(trade, t) ==
  trade.deltaOrderId # 0 /\ (t - trade.entryTime) * 60 >= WarmUpSeconds

\* A variant of Resolution: no trade is passed over for its age or for a
\* missing order id.
ResolutionOfAny(trade, answer, t) ==
  LET fillPrice == FillPrice(trade, answer.fill) IN
  IF ~answer.statusOk THEN "skip"
  ELSE IF answer.state = "none" THEN "skip"
  ELSE IF answer.positionsOk /\ answer.activePosition THEN "skip"
  ELSE IF answer.state = "closed"
  THEN IF fillPrice = 0 THEN "skip"
       ELSE IF ~answer.filled THEN "cancelled"
       ELSE IF Abs(fillPrice - trade.stopLoss) < Abs(fillPrice - trade.takeProfit)
       THEN "sl_hit"
       ELSE "tp_hit"
  ELSE IF answer.state = "cancelled" THEN "cancelled"
  ELSE "skip"

\* A variant of Resolution: the filled size is looked at before the fill
\* price.
ResolutionSizeFirst(trade, answer, t) ==
  LET fillPrice == FillPrice(trade, answer.fill) IN
  IF trade.deltaOrderId = 0 THEN "skip"
  ELSE IF (t - trade.entryTime) * 60 < WarmUpSeconds THEN "skip"
  ELSE IF ~answer.statusOk THEN "skip"
  ELSE IF answer.state = "none" THEN "skip"
  ELSE IF answer.positionsOk /\ answer.activePosition THEN "skip"
  ELSE IF answer.state = "closed"
  THEN IF ~answer.filled THEN "cancelled"
       ELSE IF fillPrice = 0 THEN "skip"
       ELSE IF Abs(fillPrice - trade.stopLoss) < Abs(fillPrice - trade.takeProfit)
       THEN "sl_hit"
       ELSE "tp_hit"
  ELSE IF answer.state = "cancelled" THEN "cancelled"
  ELSE "skip"

\* A variant of Resolution: a fill as near to the stop as to the target
\* counts as a stop.
ResolutionTieToStop(trade, answer, t) ==
  LET fillPrice == FillPrice(trade, answer.fill) IN
  IF trade.deltaOrderId = 0 THEN "skip"
  ELSE IF (t - trade.entryTime) * 60 < WarmUpSeconds THEN "skip"
  ELSE IF ~answer.statusOk THEN "skip"
  ELSE IF answer.state = "none" THEN "skip"
  ELSE IF answer.positionsOk /\ answer.activePosition THEN "skip"
  ELSE IF answer.state = "closed"
  THEN IF fillPrice = 0 THEN "skip"
       ELSE IF ~answer.filled THEN "cancelled"
       ELSE IF Abs(fillPrice - trade.stopLoss) <= Abs(fillPrice - trade.takeProfit)
       THEN "sl_hit"
       ELSE "tp_hit"
  ELSE IF answer.state = "cancelled" THEN "cancelled"
  ELSE "skip"

\* Lines 536-650: what one iteration of the loop decides for a trade:
\* "skip", "cancelled", "sl_hit" or "tp_hit".
Resolution(trade, answer, t) ==
  LET fillPrice == FillPrice(trade, answer.fill) IN
  IF trade.deltaOrderId = 0 THEN "skip"
  ELSE IF (t - trade.entryTime) * 60 < WarmUpSeconds THEN "skip"
  ELSE IF ~answer.statusOk THEN "skip"
  ELSE IF answer.state = "none" THEN "skip"
  ELSE IF answer.positionsOk /\ answer.activePosition THEN "skip"
  ELSE IF answer.state = "closed"
  THEN IF fillPrice = 0 THEN "skip"
       ELSE IF ~answer.filled THEN "cancelled"
       ELSE IF Abs(fillPrice - trade.stopLoss) < Abs(fillPrice - trade.takeProfit)
       THEN "sl_hit"
       ELSE "tp_hit"
  ELSE IF answer.state = "cancelled" THEN "cancelled"
  ELSE "skip"

\* Round-to-zero division, as the sign of a quotient of floats.
Quot(n, d) == IF n < 0 THEN -((-n) \div d) ELSE n \div d

\* (diff / entry) * 100 in ten-thousandths of a percent, computed in two
\* steps of three digits to keep every product small.
PercentOf(diff, entry) ==
  LET step == 1000
      a == Abs(diff) * step
      q == (a \div entry) * (PercentScale \div step)
           + Quot((a % entry) * (PercentScale \div step), entry)
  IN IF diff < 0 THEN -q ELSE q

\* A variant of ClosedTrade: pnlPercentage without the factor of the
\* direction.
ClosedTradeUnsigned(trade, exitPrice, status, t) ==
  [trade EXCEPT
     !.exitPrice = exitPrice,
     !.exitTime = t,
     !.pnl = IF trade.direction = "long"
             THEN (exitPrice - trade.entryPrice) * trade.quantity * trade.leverage
             ELSE (trade.entryPrice - exitPrice) * trade.quantity * trade.leverage,
     !.pnlPercentage = PercentOf(exitPrice - trade.entryPrice,
                                 trade.entryPrice),
     !.status = status]

\* A variant of ClosedTrade: pnl by the formula of a long trade whatever the
\* direction.
ClosedTradeAsLong(trade, exitPrice, status, t) ==
  [trade EXCEPT
     !.exitPrice = exitPrice,
     !.exitTime = t,
     !.pnl = (exitPrice - trade.entryPrice) * trade.quantity * trade.leverage,
     !.pnlPercentage = PercentOf(exitPrice - trade.entryPrice,
                                 trade.entryPrice)
                       * (IF trade.direction = "long" THEN 1 ELSE -1),
     !.status = status]

\* closeTrade, lines 668-699: the row updateTrade writes.  pnl is in
\* hundredths of a tick (CONTRACT_VALUE is 0.01), pnlPercentage in
\* ten-thousandths of a percent.
ClosedTrade(trade, exitPrice, status, t) ==
  [trade EXCEPT
     !.exitPrice = exitPrice,
     !.exitTime = t,
     !.pnl = IF trade.direction = "long"
             THEN (exitPrice - trade.entryPrice) * trade.quantity * trade.leverage
             ELSE (trade.entryPrice - exitPrice) * trade.quantity * trade.leverage,
     !.pnlPercentage = PercentOf(exitPrice - trade.entryPrice,
                                 trade.entryPrice)
                       * (IF trade.direction = "long" THEN 1 ELSE -1),
     !.status = status]

\* A variant of UpdatedPerformance: a trade is a losing one only when its
\* pnl is negative.
UpdatedPerformanceStrictLoss(perf, pnl) ==
  LET totalTrades == IF perf.exists THEN perf.totalTrades + 1 ELSE 1
      winningTrades == (IF perf.exists THEN perf.winningTrades ELSE 0)
                       + (IF pnl > 0 THEN 1 ELSE 0)
      losingTrades == (IF perf.exists THEN perf.losingTrades ELSE 0)
                      + (IF pnl < 0 THEN 1 ELSE 0)
  IN [exists |-> TRUE,
      totalPnl |-> (IF perf.exists THEN perf.totalPnl ELSE 0) + pnl,
      totalTrades |-> totalTrades, winningTrades |-> winningTrades,
      losingTrades |-> losingTrades,
      winRate |-> (winningTrades * RateScale) \div totalTrades]

\* updateDailyPerformance, lines 722-761: the row written for the day, from
\* the row getTodayPerformance has returned (perf.exists is false when it
\* returned undefined).  winRate is in hundredths of a percent.
UpdatedPerformance(perf, pnl) ==
  IF ~perf.exists
  THEN [exists |-> TRUE, totalPnl |-> pnl, totalTrades |-> 1,
        winningTrades |-> IF pnl > 0 THEN 1 ELSE 0,
        losingTrades |-> IF pnl <= 0 THEN 1 ELSE 0,
        winRate |-> IF pnl > 0 THEN 100 * (RateScale \div 100) ELSE 0]
  ELSE LET totalTrades == perf.totalTrades + 1
           winningTrades == perf.winningTrades + (IF pnl > 0 THEN 1 ELSE 0)
           losingTrades == perf.losingTrades + (IF pnl <= 0 THEN 1 ELSE 0)
       IN [exists |-> TRUE, totalPnl |-> perf.totalPnl + pnl,
           totalTrades |-> totalTrades, winningTrades |-> winningTrades,
           losingTrades |-> losingTrades,
           winRate |-> (winningTrades * RateScale) \div totalTrades]

\* Which of the storage calls of closeTrade succeed: getTrade, updateTrade,
\* and, in updateDailyPerformance, the read of the row of the day
\* (getTodayPerformance answers undefined on an error) and its write.
CloseOutcome(getOk, updateOk, perf) ==
  [getOk |-> getOk, updateOk |-> updateOk, perf |-> perf]

CloseOutcomes ==
  {CloseOutcome(TRUE, TRUE, "ok"), CloseOutcome(FALSE, TRUE, "ok"),
   CloseOutcome(TRUE, FALSE, "ok"), CloseOutcome(TRUE, TRUE, "read_failed"),
   CloseOutcome(TRUE, TRUE, "write_failed")}

\* closeTrade, lines 660-720: getTrade, updateTrade, updateDailyPerformance;
\* an error of any of them ends the call in its catch, with what was
\* written before it.
closeTrade(tradeId, exitPrice, status, x) ==
  IF tradeId \notin 1..Len(trades) \/ ~x.getOk \/ ~x.updateOk
  THEN UNCHANGED <<trades, performance>>
  ELSE LET closed == ClosedTrade(trades[tradeId], exitPrice, status, now)
           read == IF x.perf = "read_failed" THEN NoPerformance
                   ELSE performance
       IN /\ trades' = [trades EXCEPT ![tradeId] = closed]
          /\ performance' = IF x.perf = "write_failed" THEN performance
                            ELSE UpdatedPerformance(read, closed.pnl)

\* A variant of MonitorTrade: a cancelled trade is closed through
\* closeTrade at its entry price.
MonitorTradeClosingCancelled(tid, answer) ==
  LET trade == trades[tid]
      res == Resolution(trade, answer, now)
      exitPrice == IF res = "sl_hit" THEN trade.stopLoss
                   ELSE IF res = "tp_hit" THEN trade.takeProfit
                   ELSE trade.entryPrice
  IN IF res = "skip"
     THEN UNCHANGED <<trades, performance>>
     ELSE closeTrade(tid, exitPrice, res,
                     CloseOutcome(TRUE, answer.storeOk, answer.perf))

\* The body of the loop of lines 536-654 for the trade tid, given what the
\* exchange and the storage answer.
MonitorTrade(tid, answer) ==
  LET trade == trades[tid]
      res == Resolution(trade, answer, now)
      exitPrice == IF res = "sl_hit" THEN trade.stopLoss ELSE trade.takeProfit
  IN IF res = "skip"
     THEN UNCHANGED <<trades, performance>>
     ELSE IF res = "cancelled"
     THEN /\ trades' = IF answer.storeOk
                       THEN [trades EXCEPT ![tid].status = "cancelled"]
                       ELSE trades
          /\ UNCHANGED performance
     ELSE closeTrade(tid, exitPrice, res,
                     CloseOutcome(TRUE, answer.storeOk, answer.perf))

\* One iteration of the loop of lines 536-654, and, after the last one,
\* clearExpiredOrders (line 657).
MtLoop(s) ==
  /\ pc[s] = "mt_loop"
  /\ \E answer \in OrderAnswers : MonitorTrade(Head(loc[s].active), answer)
  /\ IF Len(loc[s].active) > 1
     THEN /\ loc' = [loc EXCEPT ![s].active = Tail(loc[s].active)]
          /\ UNCHANGED <<pc, pendingOrders, isAnalyzing, isMonitoring>>
     ELSE /\ pendingOrders' = clearExpiredOrders(pendingOrders, now)
          /\ Finish(s, NoRet)
  /\ UNCHANGED <<now, settings, limitSeq, exchangeOrders>>

Next ==
  \/ Tick(EXPIRY_MINUTES + 1)
  \/ UpdateSettings
  \/ CleanupJob
  \/ \E s \in AnaSlots :
       AnalysisTrigger(s) \/ AnaResearch(s) \/ AnaActive(s)
  \/ \E s \in MonSlots :
       \/ MonitorTrigger(s) \/ MonActive(s) \/ MtPrice(s) \/ MtSettings(s)
       \/ MtTrades(s) \/ MtLoop(s)
  \/ \E s \in AnaSlots \cup MonSlots : executeTrade(s)

Spec == Init /\ [][Next]_vars

(***************************************************************************)
(* The analysis callback and the monitor callback, one invocation of each  *)
(* at a time, with room for one more order on the exchange and a clock     *)
(* that stands still.                                                      *)
(***************************************************************************)
MaxRaceOrders == 2

NextRace ==
  \/ UpdateSettings
  \/ AnalysisTrigger("a1") \/ AnaResearch("a1") \/ AnaActive("a1")
  \/ MonitorTrigger("m1") \/ MonActive("m1") \/ MtPrice("m1")
  \/ MtSettings("m1") \/ MtTrades("m1") \/ MtLoop("m1")
  \/ \E s \in {"a1", "m1"} :
       ET_Active(s) \/ ET_Price(s) \/ ET_PlaceWithin(s, MaxRaceOrders)

SpecRace == Init /\ [][NextRace]_vars

(***************************************************************************)
(* The cron jobs with a clock that keeps advancing and a cleanup job that  *)
(* keeps firing.  The clock is followed for as long as the store holds an  *)
(* entry that has not expired yet; after that its value matters to no      *)
(* entry of the store.  Nothing is assumed of the monitor job and of the   *)
(* analysis job: they may stop firing, or stay suspended, at any point.    *)
(***************************************************************************)
TickLive(d) ==
  /\ \/ now + d <= MaxTime
     \/ \E i \in 1..Len(pendingOrders) : ~Expired(pendingOrders[i], now)
  /\ now' = now + d
  /\ UNCHANGED <<settings, pendingOrders, limitSeq, trades, performance,
                 exchangeOrders, isAnalyzing, isMonitoring, pc, loc>>

NextLive ==
  \/ TickLive(EXPIRY_MINUTES + 1)
  \/ UpdateSettings
  \/ CleanupJob
  \/ AnalysisTrigger("a1") \/ AnaResearch("a1") \/ AnaActive("a1")
  \/ MonitorTrigger("m1") \/ MonActive("m1") \/ MtPrice("m1")
  \/ MtSettings("m1") \/ MtTrades("m1") \/ MtLoop("m1")
  \/ \E s \in {"a1", "m1"} : executeTrade(s)

SpecLive ==
  /\ Init /\ [][NextLive]_vars
  /\ WF_vars(TickLive(EXPIRY_MINUTES + 1))
  /\ WF_vars(CleanupJob)

(***************************************************************************)
(* Direct use of storage.createTrade and of closeTrade by one caller: any  *)
(* sequence of closes, at any exit price.                                  *)
(***************************************************************************)
MaxTrades == 1
MaxCloses == 4
QuantitySet == {1, 2}
\* Exit prices below the entry, at the entry and one tick above it.
ExitSet == {99500, 100000, 100001}

\* storage.createTrade with the row executeTrade builds.
ApiCreateTrade ==
  /\ Len(trades) < MaxTrades
  /\ \E signal \in {s \in TradableSignals : s.executionStrategy = "market"},
        quantity \in QuantitySet :
       trades' = Append(trades,
                        NewTrade(Len(trades) + 1, signal, settings, quantity,
                                 signal.entryPrice, Len(trades) + 1, now))
  /\ UNCHANGED <<now, settings, pendingOrders, limitSeq, performance,
                 exchangeOrders, isAnalyzing, isMonitoring, pc, loc>>

\* closeTrade(tradeId, exitPrice, status), for the id of a row or of none.
ApiCloseTrade ==
  /\ performance.totalTrades < MaxCloses
  /\ \E tradeId \in 1..MaxTrades, exitPrice \in ExitSet,
        status \in {"sl_hit", "tp_hit"}, x \in CloseOutcomes :
       closeTrade(tradeId, exitPrice, status, x)
  /\ UNCHANGED <<now, settings, pendingOrders, limitSeq, exchangeOrders,
                 isAnalyzing, isMonitoring, pc, loc>>

NextClose == ApiCreateTrade \/ ApiCloseTrade

SpecClose == Init /\ [][NextClose]_vars

(***************************************************************************)
(* Direct calls of executeTrade and of closeTrade by one caller who notes  *)
(* what each call was given and whether its mail was sent.                 *)
(***************************************************************************)
\* closeTrade(tradeId, exitPrice, status).  The mail of line 703 is reached
\* when no storage call before it has thrown; sendTradeClosedEmail is the
\* last statement of the try.  As in monitorTrades (line 534), the caller
\* closes only trades that getActiveTrades would return.
ApiCloseTradeNoted ==
  /\ pc[Api] = "idle"
  /\ performance.totalTrades < MaxCloses
  /\ \E tradeId \in 1..MaxTrades, exitPrice \in ExitSet,
        status \in {"sl_hit", "tp_hit"}, x \in CloseOutcomes,
        sent \in BOOLEAN :
       LET written == tradeId \in 1..Len(trades) /\ x.getOk /\ x.updateOk
           reached == written /\ x.perf # "write_failed"
           mailed == sendTradeClosedEmail(sent) = "resolved"
       IN /\ tradeId \in 1..Len(trades) => trades[tradeId].status = "open"
          /\ closeTrade(tradeId, exitPrice, status, x)
          /\ loc' = [loc EXCEPT ![Api] =
                       [InitLoc EXCEPT
                          !.price = exitPrice,
                          !.snap = Snapshot,
                          !.ret = [value |-> status,
                                   reason |-> IF written THEN "closed"
                                              ELSE "not_closed",
                                   id |-> tradeId,
                                   mail |-> IF ~reached \/ ~mailed THEN "none"
                                            ELSE IF sent THEN "sent"
                                            ELSE "failed"]]]
  /\ UNCHANGED <<now, settings, pendingOrders, limitSeq, exchangeOrders,
                 isAnalyzing, isMonitoring, pc>>

NextNotify == ApiExecuteTrade \/ executeTrade(Api) \/ ApiCloseTradeNoted

SpecNotify == Init /\ [][NextNotify]_vars

(***************************************************************************)
(* The loop body of monitorTrades applied by one caller to one open trade  *)
(* at a time, with the answers of the exchange noted.                      *)
(***************************************************************************)
\* A Trade row with a stop 15.00 and a target 30.00 away from the entry
\* 2700.00.
ScenarioTrade(id, direction, quantity, cfg, t) ==
  [id |-> id, direction |-> direction, entryPrice |-> 270000,
   quantity |-> quantity, leverage |-> cfg.leverage,
   stopLoss |-> IF direction = "long" THEN 268500 ELSE 271500,
   takeProfit |-> IF direction = "long" THEN 273000 ELSE 267000,
   status |-> "open", deltaOrderId |-> id, entryTime |-> t,
   exitPrice |-> 0, exitTime |-> 0, pnl |-> 0, pnlPercentage |-> 0]

\* storage.createTrade of such a row, with or without an order id.
ApiCreateScenarioTrade ==
  /\ pc[Api] = "idle"
  /\ Len(trades) < MaxTrades
  /\ \E direction \in Directions, quantity \in QuantitySet,
        hasOrder \in BOOLEAN :
       LET row == ScenarioTrade(Len(trades) + 1, direction, quantity,
                                settings, now)
       IN trades' = Append(trades,
                           IF hasOrder THEN row
                           ELSE [row EXCEPT !.deltaOrderId = 0])
  /\ loc' = [loc EXCEPT ![Api] =
               [InitLoc EXCEPT !.snap = Snapshot,
                               !.ret = [value |-> "trade", reason |-> "created",
                                        id |-> Len(trades) + 1]]]
  /\ UNCHANGED <<now, settings, pendingOrders, limitSeq, performance,
                 exchangeOrders, isAnalyzing, isMonitoring, pc>>

\* The answers of OrderAnswers and two more fills of a closed order.
ResolveAnswers ==
  OrderAnswers \cup
  {OrderAnswer(TRUE, "closed", TRUE, "slipped", TRUE, FALSE, TRUE),
   OrderAnswer(TRUE, "closed", TRUE, "middle", TRUE, FALSE, TRUE),
   OrderAnswer(TRUE, "cancelled", FALSE, "none", TRUE, TRUE, TRUE),
   OrderAnswer(TRUE, "closed", FALSE, "none", TRUE, FALSE, TRUE)}

ApiMonitorTrade ==
  /\ pc[Api] = "idle"
  /\ \E tid \in getActiveTrades(TRUE), answer \in ResolveAnswers :
       /\ MonitorTrade(tid, answer)
       /\ loc' = [loc EXCEPT ![Api] =
                    [InitLoc EXCEPT !.snap = Snapshot,
                                    !.ret = [value |-> "void",
                                             reason |-> "monitored",
                                             id |-> tid, answer |-> answer,
                                             queried |->
                                               Eligible(trades[tid], now)]]]
  /\ UNCHANGED <<now, settings, pendingOrders, limitSeq, exchangeOrders,
                 isAnalyzing, isMonitoring, pc>>

NextResolve ==
  \/ ApiCreateTrade
  \/ ApiCreateScenarioTrade
  \/ ApiMonitorTrade
  \/ Tick(EXPIRY_MINUTES + 1)

SpecResolve == Init /\ [][NextResolve]_vars

(***************************************************************************)
(* enforceRiskRewardAndSanitize (groq-client.ts).  Prices are in cents;    *)
(* the prices the function computes before its final toFixed(2) are kept   *)
(* in thousandths of a cent.                                               *)
(***************************************************************************)
SubCent == 1000

\* n / d to the nearest whole number, for n >= 0 and d > 0.
RoundDiv(n, d) == (2 * n + d) \div (2 * d)

\* a * n / d to the nearest whole number, without the product a * n.
MulDiv(a, n, d) == (a \div d) * n + RoundDiv((a % d) * n, d)

\* Number(x.toFixed(2)): thousandths of a cent to cents.
ToFixed2(x) == RoundDiv(x, SubCent)

\* The raw answer of the recommendation service.  entryPrice 0 and
\* confidence 0 stand for an absent field.
RawRecommendation(dir, strategy, entry, conf) ==
  [direction |-> dir, entryPrice |-> entry, stopLoss |-> 0, takeProfit |-> 0,
   confidence |-> conf, executionStrategy |-> strategy]

\* Lines 1003-1016: the no-trade answer.
DefaultNoTrade(analysis, currentPrice) ==
  LET c == IF analysis.confidence = 0 THEN 50 ELSE analysis.confidence
  IN [direction |-> "none", entryPrice |-> currentPrice,
      stopLoss |-> currentPrice, takeProfit |-> currentPrice,
      confidence |-> IF c > 69 THEN 69 ELSE IF c < 1 THEN 1 ELSE c,
      executionStrategy |-> "market"]

\* A variant of LimitEntry, the override of lines 665-683: an entry more
\* than 0.3% from the current price becomes the current price plus 0.15%
\* for a long and minus 0.15% for a short.
LimitEntryNearMarket(dir, aiSuggestedEntry, currentPrice) ==
  IF Abs(aiSuggestedEntry - currentPrice) * 1000 > 3 * currentPrice
  THEN IF dir = "long" THEN MulDiv(currentPrice * SubCent, 2003, 2000)
       ELSE MulDiv(currentPrice * SubCent, 1997, 2000)
  ELSE aiSuggestedEntry * SubCent

\* Lines 1062-1096: the entry of a limit recommendation.
LimitEntry(dir, aiSuggestedEntry, currentPrice) ==
  LET deviation == Abs(aiSuggestedEntry - currentPrice)
  IN IF deviation * 1000 < 3 * currentPrice THEN currentPrice * SubCent
     ELSE IF deviation * 100 > 2 * currentPrice
     THEN IF dir = "long" THEN currentPrice * 985 ELSE currentPrice * 1015
     ELSE IF dir = "long" /\ aiSuggestedEntry >= currentPrice
     THEN currentPrice * 995
     ELSE IF dir = "short" /\ aiSuggestedEntry <= currentPrice
     THEN currentPrice * 1005
     ELSE aiSuggestedEntry * SubCent

\* A variant of StopFor: the stop of a long is put above the entry and that
\* of a short below it.
StopForSwapped(dir, entry) ==
  IF dir = "long" THEN MulDiv(entry, 201, 200) ELSE MulDiv(entry, 199, 200)

\* `stop = entry * 0.995` for a long, `entry * 1.005` for a short.
StopFor(dir, entry) ==
  IF dir = "long" THEN MulDiv(entry, 199, 200) ELSE MulDiv(entry, 201, 200)

\* `tp = entry + (entry - stop) * 2` for a market order, `* 2.5` for a limit
\* order; the other way round for a short.
TargetFor(dir, strategy, entry, stop) ==
  LET reward == IF strategy = "market" THEN Abs(entry - stop) * 2
                ELSE RoundDiv(Abs(entry - stop) * 5, 2)
  IN IF dir = "long" THEN entry + reward ELSE entry - reward

\* A variant of enforceRiskRewardAndSanitize that keeps a memory of its
\* calls: the confidence of its answer falls with every earlier call.
enforceRiskRewardAndSanitizeCounting(analysis, currentPrice, lastCandle) ==
  [DefaultNoTrade(analysis, currentPrice)
     EXCEPT !.confidence = @ - Len(loc[Api].earlier)]

\* Lines 993-1159.  analysis is the raw answer, currentPrice the close of
\* the last candle; lastCandle is not read.  A ratio of 0 / 0 is NaN, which
\* is not below 1.5.
enforceRiskRewardAndSanitize(analysis, currentPrice, lastCandle) ==
  LET confidence == IF analysis.confidence = 0 THEN 50 ELSE analysis.confidence
      dir == IF analysis.direction = "short" THEN "short" ELSE "long"
      strategy == IF analysis.executionStrategy = "limit" THEN "limit"
                  ELSE "market"
      aiSuggestedEntry == IF analysis.entryPrice = 0 THEN currentPrice
                          ELSE analysis.entryPrice
      entry == IF strategy = "market" THEN currentPrice * SubCent
               ELSE LimitEntry(dir, aiSuggestedEntry, currentPrice)
      stop == StopFor(dir, entry)
      tp == TargetFor(dir, strategy, entry, stop)
      risk == Abs(entry - stop)
      reward == Abs(tp - entry)
  IN IF analysis.direction = "none" THEN DefaultNoTrade(analysis, currentPrice)
     ELSE IF confidence < MinConfidence
     THEN DefaultNoTrade(analysis, currentPrice)
     ELSE IF risk # 0 /\ reward * 2 < risk * 3
     THEN DefaultNoTrade(analysis, currentPrice)
     ELSE [direction |-> dir, entryPrice |-> ToFixed2(entry),
           stopLoss |-> ToFixed2(stop), takeProfit |-> ToFixed2(tp),
           confidence |-> confidence, executionStrategy |-> strategy]

\* The closes of the last ETHUSD candle, in cents.  No value the function
\* computes from them lies on a half cent, where toFixed rounds by the
\* binary value of the number.
CurrentPrices == {273824, 250050}

\* Suggested entries for a current price: absent, 0.2% above it, 1% below
\* and above it, 3% below it, and 2805.05.
RawEntries(currentPrice) ==
  {0, currentPrice + (currentPrice * 2) \div 1000,
   currentPrice - currentPrice \div 100, currentPrice + currentPrice \div 100,
   currentPrice - (currentPrice * 3) \div 100, 280505}

RawRecommendations(currentPrice) ==
  {RawRecommendation(dir, strategy, entry, conf) :
     dir \in Directions \cup {"none"}, strategy \in {"market", "limit"},
     entry \in RawEntries(currentPrice), conf \in {0, 60, 80}}

\* The candle is passed to the function and not read by it.
NoCandle == [close |-> 0]

\* The caller holds a raw answer and a current price.
InitSanitize ==
  /\ now = 0
  /\ settings = Settings(FALSE, DefaultConcurrentTrades)
  /\ pendingOrders = <<>>
  /\ limitSeq = 0
  /\ trades = <<>>
  /\ performance = NoPerformance
  /\ exchangeOrders = <<>>
  /\ isAnalyzing = FALSE
  /\ isMonitoring = FALSE
  /\ pc = [p \in Procs |-> IF p = Api THEN "sanitize" ELSE "idle"]
  /\ \E currentPrice \in CurrentPrices :
       \E analysis \in RawRecommendations(currentPrice) :
         loc = [p \in Procs |->
                  IF p = Api
                  THEN [InitLoc EXCEPT !.signal = analysis,
                                       !.price = currentPrice]
                  ELSE InitLoc]

\* One call of the function on what the caller holds.
ApiSanitize ==
  /\ pc[Api] = "sanitize"
  /\ pc' = [pc EXCEPT ![Api] = "sanitized"]
  /\ loc' = [loc EXCEPT ![Api].sanitized =
               enforceRiskRewardAndSanitize(loc[Api].signal, loc[Api].price,
                                            NoCandle)]
  /\ UNCHANGED <<now, settings, pendingOrders, limitSeq, trades, performance,
                 exchangeOrders, isAnalyzing, isMonitoring>>

\* The caller notes the call and its answer, and calls the function again,
\* with the same arguments or with the other strategy.
ApiSanitizeAgain ==
  /\ pc[Api] = "sanitized"
  /\ loc[Api].earlier = <<>>
  /\ pc' = [pc EXCEPT ![Api] = "sanitize"]
  /\ \E strategy \in {"market", "limit"} :
       loc' = [loc EXCEPT
                 ![Api].earlier =
                    <<[analysis |-> loc[Api].signal, currentPrice |-> loc[Api].price,
                       sanitized |-> loc[Api].sanitized]>>,
                 ![Api].signal.executionStrategy = strategy,
                 ![Api].sanitized = NoSignal]
  /\ UNCHANGED <<now, settings, pendingOrders, limitSeq, trades, performance,
                 exchangeOrders, isAnalyzing, isMonitoring>>

NextSanitize == ApiSanitize \/ ApiSanitizeAgain

SpecSanitize == InitSanitize /\ [][NextSanitize]_vars

(***************************************************************************)
(* Properties.  Call is the last direct call of the caller api: what it    *)
(* returned, and the store, trades, exchange orders and time it started    *)
(* from.                                                                   *)
(***************************************************************************)
Call == loc[Api]
Before == loc[Api].snap.pendingOrders
Entries(store) == {store[i] : i \in 1..Len(store)}
CountOfDirection(store, dir) == Cardinality(PendingOfDirection(store, dir))
LocalStateUnchanged ==
  /\ trades = Call.snap.trades
  /\ pendingOrders = Call.snap.pendingOrders
  /\ exchangeOrders = Call.snap.exchangeOrders

\* C1: at most one monitor pass and at most one analysis pass is in progress
\* at any time, and a pass is in progress exactly while its latch is set: a
\* trigger that arrives while the latch is set starts nothing.
C1_OnePassPerKind ==
  /\ Cardinality({s \in MonSlots : Running(s)}) <= 1
  /\ Cardinality({s \in AnaSlots : Running(s)}) <= 1
  /\ isMonitoring <=> \E s \in MonSlots : Running(s)
  /\ isAnalyzing <=> \E s \in AnaSlots : Running(s)

\* A monitor pass and an analysis pass are both in progress inside
\* executeTrade, so a trigger of either kind that arrives now is skipped.
C1_Witness ==
  /\ isMonitoring /\ isAnalyzing
  /\ pc["m1"] = "et_price" /\ pc["a1"] = "et_price"
  /\ pc["m2"] = "idle" /\ pc["a2"] = "idle"

C3_PlacementFailureLeavesNoTrace ==
  Call.ret.reason = "placement_failed" =>
    Call.ret.value = "null" /\ LocalStateUnchanged

\* executeTrade has returned after a placement that threw, called while a
\* pending order was in the store.
C3_Witness ==
  /\ Call.ret.reason = "placement_failed"
  /\ Call.snap.pendingOrders # <<>>

\* C4: in every reachable state of the scheduled system the store holds at
\* most one pending order per direction.
C4_OnePendingPerDirection ==
  \A d \in Directions : CountOfDirection(pendingOrders, d) <= 1

\* An analysis pass holds a limit recommendation of a direction that is
\* already pending, at the point where it looks for such an order.
C4_Witness ==
  \E s \in AnaSlots :
    /\ pc[s] = "ana_active"
    /\ loc[s].signal.executionStrategy = "limit"
    /\ CountOfDirection(pendingOrders, loc[s].signal.direction) = 1

C6_NoExpiredTrigger ==
  (Call.ret.reason = "checked" /\ Call.ret.value = "signal") =>
    \E o \in Entries(Before) :
      /\ o.id = Call.ret.id
      /\ Call.snap.now <= o.expiresAt
      /\ Call.snap.now <= o.createdAt + EXPIRY_MINUTES

\* checkPendingOrders was called at a price that an expired entry of the
\* store had reached.
C6_Witness ==
  /\ Call.ret.reason = "checked"
  /\ \E o \in Entries(Before) :
       Call.snap.now > o.expiresAt /\ Triggered(o, Call.price)

\* C7: a checkPendingOrders call at a price that no entry has reached
\* returns null and removes every entry created more than 15 minutes before
\* the call; an order handed out as a trigger is always an entry of the
\* store, so a removed order never becomes a Trade.
C7_ExpiredOrderPurged ==
  /\ (Call.ret.reason = "checked" /\
      \A o \in Entries(Before) : ~Triggered(o, Call.price)) =>
       /\ Call.ret.value = "null"
       /\ \A o \in Entries(Before) :
            Call.snap.now > o.createdAt + EXPIRY_MINUTES =>
              o.id \notin PendingIds(pendingOrders)
  /\ Call.ret.value = "signal" => Call.ret.id \in PendingIds(Before)
  /\ trades = <<>>

\* checkPendingOrders was called 16 minutes after an entry was created, at a
\* price no entry had reached; the entry is gone.
C7_Witness ==
  /\ Call.ret.reason = "checked"
  /\ Call.ret.value = "null"
  /\ \A o \in Entries(Before) : ~Triggered(o, Call.price)
  /\ \E o \in Entries(Before) :
       /\ Call.snap.now = o.createdAt + EXPIRY_MINUTES + 1
       /\ o.id \notin PendingIds(pendingOrders)

\* C8: a checkPendingOrders call that returns a trigger removes that entry;
\* every other entry that had not expired, reached by the price or not,
\* is still in the store after the call, and the store gains nothing.
C8_OneTriggerPerCall ==
  (Call.ret.reason = "checked" /\ Call.ret.value = "signal") =>
    /\ Call.ret.id \in PendingIds(Before)
    /\ Call.ret.id \notin PendingIds(pendingOrders)
    /\ \A o \in Entries(Before) :
         (o.id # Call.ret.id /\ Call.snap.now <= o.expiresAt) =>
           o \in Entries(pendingOrders)
    /\ Entries(pendingOrders) \subseteq Entries(Before)

\* checkPendingOrders has returned a trigger while another entry, not
\* expired and reached by the same price, stayed in the store.
C8_Witness ==
  /\ Call.ret.reason = "checked"
  /\ Call.ret.value = "signal"
  /\ \E o \in Entries(pendingOrders) :
       /\ o \in Entries(Before)
       /\ Call.snap.now <= o.expiresAt
       /\ Triggered(o, Call.price)

\* The reasons of the expected rejections of executeTrade.
ExpectedRejections ==
  {"limit_reached", "no_collateral", "insufficient_balance", "too_small",
   "invalid_levels", "unreachable", "too_far"}

\* C9: on an expected rejection executeTrade returns null (it does not
\* throw) and leaves the trades, the pending orders and the exchange orders
\* as they were.
C9_RejectionReturnsNull ==
  Call.ret.reason \in ExpectedRejections =>
    Call.ret.value = "null" /\ LocalStateUnchanged

\* executeTrade has rejected a recommendation for a limit price too far
\* from the market while a pending order was in the store.
C9_Witness ==
  /\ Call.ret.reason = "too_far"
  /\ Call.snap.pendingOrders # <<>>

\* C10 as stated: a deferring executeTrade returns the id of the entry it
\* has added to the store.
C10_Original ==
  Call.ret.reason = "deferred" =>
    /\ Call.ret.value = "id"
    /\ Call.ret.id \in PendingIds(pendingOrders) \ PendingIds(Before)

\* C10 amended: a deferring executeTrade returns null, as a rejection does;
\* the deferral shows only in the store, which has one entry more.
C10_Amended ==
  Call.ret.reason = "deferred" =>
    /\ Call.ret.value = "null"
    /\ Call.ret.id = 0
    /\ Cardinality(PendingIds(pendingOrders) \ PendingIds(Before)) = 1

\* executeTrade has deferred a limit recommendation.
C10_Witness ==
  /\ Call.ret.reason = "deferred"
  /\ Call.ret.value = "null"
  /\ Len(pendingOrders) > Len(Before)

\* C11: executeTrade rejects whenever the number of open trades it reads is
\* greater than or equal to concurrentTrades: a call goes on to the price
\* and to a placement only with a list shorter than the limit, and the
\* rejection returns null, places no order and registers no pending order.
C11_RejectsAtLimit ==
  /\ \A p \in Procs :
       pc[p] \in {"et_price", "et_place"} =>
         Len(loc[p].active) < loc[p].cfg.concurrentTrades
  /\ Call.ret.reason = "limit_reached" =>
       /\ Call.ret.value = "null"
       /\ exchangeOrders = Call.snap.exchangeOrders
       /\ pendingOrders = Call.snap.pendingOrders
       /\ trades = Call.snap.trades

\* executeTrade has rejected a recommendation because a trade was open and
\* the limit was one.
C11_Witness ==
  /\ Call.ret.reason = "limit_reached"
  /\ \E i \in 1..Len(Call.snap.trades) : Call.snap.trades[i].status = "open"
  /\ Len(Call.snap.trades) = 1

\* A monitor trigger, and an analysis trigger, that starts a pass.
MonitorStarts ==
  \E s \in MonSlots :
    MonitorTrigger(s) /\ isMonitoring' /\ pc'[s] = "mon_active"
AnalysisStarts ==
  \E s \in AnaSlots :
    AnalysisTrigger(s) /\ isAnalyzing' /\ pc'[s] = "ana_research"

\* C12: the two latches are independent: while an analysis pass is running
\* (wherever it is suspended) and no monitor pass is, a monitor trigger
\* starts a monitor pass; while a monitor pass is running and no analysis
\* pass is, an analysis trigger starts an analysis pass.
C12_LatchesIndependent ==
  /\ (isAnalyzing /\ ~isMonitoring) => ENABLED MonitorStarts
  /\ (isMonitoring /\ ~isAnalyzing) => ENABLED AnalysisStarts

\* A monitor pass has just started while the analysis pass is suspended on
\* the placement call of the exchange.
C12_Witness ==
  /\ pc["a1"] = "et_place" /\ isAnalyzing
  /\ pc["m1"] = "mon_active" /\ isMonitoring

\* A step of a pass that holds the latch of its kind.
ByLatchedPass ==
  \E s \in MonSlots \cup AnaSlots :
    /\ Running(s) /\ pc'[s] # pc[s]
    /\ IF s \in MonSlots THEN isMonitoring ELSE isAnalyzing

\* The entries of the store whose expiry has not elapsed at t.
Live(store, t) == SelectSeq(store, LAMBDA o : t <= o.expiresAt)

\* C13 as stated: every mutation of the pending-order store is a step of a
\* pass that holds the monitor latch or the analysis latch.
C13_Original ==
  [][pendingOrders' # pendingOrders => ByLatchedPass]_vars

\* C13 amended: every mutation of the pending-order store is a step of a
\* pass that holds the latch of its kind, or it is the expiry purge of the
\* cleanup job, which holds no latch, belongs to no pass and removes exactly
\* the entries whose expiry has elapsed.
C13_Amended ==
  [][pendingOrders' # pendingOrders =>
       \/ ByLatchedPass
       \/ pc' = pc /\ pendingOrders' = Live(pendingOrders, now)]_vars

\* No pass is in progress, neither latch is set and the store holds an
\* entry whose expiry has elapsed: the cleanup job purges it.
C13_Witness ==
  /\ ~isMonitoring /\ ~isAnalyzing
  /\ \A p \in Procs : pc[p] = "idle"
  /\ \E o \in Entries(pendingOrders) : now > o.expiresAt

\* C14: terminal trade statuses are absorbing: every Trade is created with
\* status open, and once its status has left open no step of a monitor or
\* analysis pass changes its status, exit price, exit time or PnL (or any
\* other field of the row) again.
C14_TerminalAbsorbing ==
  [][/\ \A i \in 1..Len(trades) :
          trades[i].status # "open" =>
            i <= Len(trades') /\ trades'[i] = trades[i]
     /\ \A i \in 1..Len(trades') :
          i > Len(trades) => trades'[i].status = "open"]_vars

\* A monitor pass is about to read the active trades after the only trade
\* has been closed at its target.
C14_Witness ==
  /\ pc["m1"] = "mt_trades"
  /\ Len(trades) = 1 /\ trades[1].status = "tp_hit"
  /\ trades[1].exitPrice = trades[1].takeProfit

\* C15: after any sequence of trade closes the row of the day satisfies
\* totalTrades = winningTrades + losingTrades and winRate = winningTrades /
\* totalTrades x 100 (winRate is kept in hundredths of a percent, so it is
\* the whole number of hundredths in that quotient).
C15_PerformanceConsistent ==
  performance.exists =>
    /\ performance.totalTrades > 0
    /\ performance.totalTrades =
         performance.winningTrades + performance.losingTrades
    /\ performance.winRate * performance.totalTrades
         <= performance.winningTrades * 100 * 100
    /\ performance.winningTrades * 100 * 100
         < (performance.winRate + 1) * performance.totalTrades

\* Three closes have been rolled into the row: one winning trade, one
\* losing trade and one closed at its entry price.
C15_Witness ==
  /\ performance.exists
  /\ performance.totalTrades = 3
  /\ performance.winningTrades = 1
  /\ performance.losingTrades = 2
  /\ performance.totalPnl < 0
  /\ \E i \in 1..Len(trades) : trades[i].status # "open" /\ trades[i].pnl = 0

\* The sign of a number: -1, 0 or 1.
Sign(x) == IF x > 0 THEN 1 ELSE IF x < 0 THEN -1 ELSE 0

\* C16 as stated: every transition of a Trade from open to a terminal status
\* (tp_hit, sl_hit or cancelled) is rolled into the row of the day exactly
\* once: totalTrades is the number of trades that have left open.
C16_EveryCloseCountedOnce ==
  performance.totalTrades =
    Cardinality({i \in 1..Len(trades) : trades[i].status # "open"})

\* C17: for every Trade closed by closeTrade (quantity >= 1, leverage >= 1)
\* the recorded PnL of a long is positive iff the recorded exit price is
\* above the entry price, that of a short iff it is below, and
\* pnlPercentage has the sign of the PnL.
C17_PnlSign ==
  \A i \in 1..Len(trades) :
    LET trade == trades[i] IN
    (trade.status # "open" /\ trade.quantity >= 1 /\ trade.leverage >= 1) =>
      /\ trade.direction = "long" =>
           (trade.pnl > 0 <=> trade.exitPrice > trade.entryPrice)
      /\ trade.direction = "short" =>
           (trade.pnl > 0 <=> trade.exitPrice < trade.entryPrice)
      /\ Sign(trade.pnlPercentage) = Sign(trade.pnl)

\* A short trade has been closed below its entry price: its PnL and its
\* pnlPercentage are positive.
C17_Witness ==
  \E i \in 1..Len(trades) :
    /\ trades[i].status = "tp_hit" /\ trades[i].direction = "short"
    /\ trades[i].exitPrice < trades[i].entryPrice
    /\ trades[i].pnl > 0 /\ trades[i].pnlPercentage > 0

\* The arguments and the answer of the sanitizer call of the caller.
Raw == loc[Api].signal
Sanitized == loc[Api].sanitized

\* C18: every recommendation returned by the sanitizer with a direction
\* other than none has stop < entry < target for a long and target < entry <
\* stop for a short, and |target - entry| / |entry - stop| >= 1.5.
C18_SanitizedOrderedWithReward ==
  Sanitized.direction # "none" =>
    /\ Sanitized.direction = "long" =>
         /\ Sanitized.stopLoss < Sanitized.entryPrice
         /\ Sanitized.entryPrice < Sanitized.takeProfit
    /\ Sanitized.direction = "short" =>
         /\ Sanitized.takeProfit < Sanitized.entryPrice
         /\ Sanitized.entryPrice < Sanitized.stopLoss
    /\ Abs(Sanitized.takeProfit - Sanitized.entryPrice) * 2
         >= Abs(Sanitized.entryPrice - Sanitized.stopLoss) * 3

\* The sanitizer has returned a short limit recommendation at the entry the
\* raw answer suggested.
C18_Witness ==
  /\ pc[Api] = "sanitized"
  /\ Sanitized.direction = "short" /\ Sanitized.executionStrategy = "limit"
  /\ Sanitized.entryPrice = Raw.entryPrice
  /\ Sanitized.entryPrice > loc[Api].price

Scenario2738 ==
  /\ pc[Api] = "sanitized"
  /\ loc[Api].price = 273824
  /\ Raw.direction = "long" /\ Raw.entryPrice = 280505
  /\ Raw.confidence >= MinConfidence

\* x is y to within a cent.
About(x, y) == Abs(x - y) <= 1

C21_MailFailureHarmless ==
  /\ (pc[Api] = "idle" /\ Len(trades) > Len(Call.snap.trades)) =>
       /\ Call.ret.value = "trade"
       /\ Call.ret.id = Len(trades)
       /\ trades[Len(trades)].status = "open"
       /\ Call.ret.mail \in {"sent", "failed"}
  /\ (Call.ret.reason = "closed" /\ Call.ret.mail = "failed") =>
       LET was == Call.snap.trades[Call.ret.id]
           row == trades[Call.ret.id]
           move == IF was.direction = "long"
                   THEN Call.price - was.entryPrice
                   ELSE was.entryPrice - Call.price
       IN /\ row.status = Call.ret.value
          /\ row.exitPrice = Call.price
          /\ row.pnl = move * was.quantity * was.leverage

\* executeTrade has returned the Trade it has written although the mail
\* service has failed.
C21_Witness ==
  /\ pc[Api] = "idle"
  /\ Call.ret.reason = "executed" /\ Call.ret.mail = "failed"
  /\ Len(trades) = Len(Call.snap.trades) + 1

\* C22: a pass in which the recommendation service failed (request error,
\* empty or unparsable response) ends at once: it places no exchange order,
\* creates no Trade and registers no pending order.
C22_ServiceFailureNoTrade ==
  Call.snap.service \in {"request_error", "empty", "unparsable"} =>
    /\ pc[Api] = "idle"
    /\ Call.ret = Null("no_trade")
    /\ trades = Call.snap.trades
    /\ pendingOrders = Call.snap.pendingOrders
    /\ exchangeOrders = Call.snap.exchangeOrders

C22_Witness ==
  /\ Call.snap.service = "unparsable"
  /\ Call.snap.trades # <<>>
  /\ Call.snap.pendingOrders # <<>>

\* C23: a pending order removed from the store because its trigger fired is
\* converted into a Trade: the monitor pass that took it out of the store
\* never ends without having created the Trade.
C23_TriggeredBecomesTrade ==
  [][\A s \in MonSlots :
       (loc[s].trigId # 0 /\ pc[s] # "idle" /\ pc'[s] = "idle") =>
         /\ Len(trades') = Len(trades) + 1
         /\ trades'[Len(trades')].direction = loc[s].signal.direction]_vars

\* C24: a monitor pass in which checkPendingOrders returned a trigger hands
\* the order to executeTrade with strategy market and ends without reaching
\* the reconciliation of the open Trades; Trades are reconciled only in
\* passes without a trigger.
C24_TriggerPassOnlyExecutes ==
  [][\A s \in MonSlots :
       /\ pc[s] = "mt_settings" =>
            /\ pc'[s] \in {"mt_settings", "et_active"}
            /\ loc'[s].signal.executionStrategy = "market"
       /\ loc[s].trigId # 0 => pc'[s] \notin {"mt_trades", "mt_loop"}
       /\ pc'[s] \in {"mt_trades", "mt_loop"} => loc'[s].trigId = 0]_vars

\* C24, amended: after a trigger the pass reads the settings; without
\* settings it returns at once, leaving trades, store and exchange as they
\* are, and otherwise it hands the triggered order, unchanged and with
\* strategy market, to executeTrade.  Either way it never reaches the
\* reconciliation of the open Trades, which only passes without a trigger do.
C24_Amended ==
  [][\A s \in MonSlots :
       /\ (pc[s] = "mt_settings" /\ pc'[s] # "mt_settings") =>
            \/ /\ pc'[s] = "et_active"
               /\ loc'[s].signal = loc[s].signal
               /\ loc'[s].signal.executionStrategy = "market"
               /\ loc'[s].cfg = settings
            \/ /\ pc'[s] = "idle"
               /\ UNCHANGED <<trades, pendingOrders, exchangeOrders>>
       /\ loc[s].trigId # 0 => pc'[s] \notin {"mt_trades", "mt_loop"}
       /\ pc'[s] \in {"mt_trades", "mt_loop"} => loc'[s].trigId = 0]_vars

C24_Witness ==
  \E s \in MonSlots :
    /\ loc[s].trigId # 0
    /\ pc[s] = "et_active"
    /\ \E i \in 1..Len(trades) : trades[i].status = "open"

\* C25: at the end of every monitor pass that ran monitorTrades, whichever
\* path it took, the pending-order store holds no entry whose expiry has
\* elapsed.
C25_PassEndsPurged ==
  [][\A s \in MonSlots :
       (pc[s] \notin {"idle", "mon_active"} /\ pc'[s] = "idle") =>
         \A i \in 1..Len(pendingOrders') :
            now' <= pendingOrders'[i].expiresAt]_vars

\* C26: when checkPendingOrders returns, with or without a trigger, no entry
\* whose expiry has elapsed remains, and the result is the one of purging
\* first and evaluating the triggers on the remaining entries afterwards:
\* the first remaining entry the price has reached is taken out and
\* returned, or none is and the purged store is left.
C26_PurgedThenChecked ==
  Call.ret.reason = "checked" =>
    LET purged == SelectSeq(Before, LAMBDA o : Call.snap.now <= o.expiresAt)
        hits == {i \in 1..Len(purged) : Triggered(purged[i], Call.price)}
    IN /\ \A i \in 1..Len(pendingOrders) :
            Call.snap.now <= pendingOrders[i].expiresAt
       /\ IF hits = {}
          THEN Call.ret.id = 0 /\ pendingOrders = purged
          ELSE LET first == CHOOSE i \in hits : \A j \in hits : i <= j
               IN /\ Call.ret.id = purged[first].id
                  /\ pendingOrders =
                       SelectSeq(purged, LAMBDA o : o.id # Call.ret.id)

C26_Witness ==
  /\ Call.ret.reason = "checked"
  /\ Call.ret.id # 0
  /\ Len(Before) = MaxLimitOrders
  /\ Call.snap.now > Before[1].expiresAt
  /\ pendingOrders = <<>>

\* C27: for the entry checkPendingOrders returns and for every live entry
\* it examined before, a long entry triggers iff currentPrice <= targetEntry
\* * 1.001 and a short entry iff currentPrice >= targetEntry * 0.999; the
\* returned recommendation keeps the direction, has the trigger price as
\* entry and strategy market, and its entry has left the store.
C27_TriggerRule ==
  Call.ret.reason = "checked" =>
    LET live == SelectSeq(Before, LAMBDA o : Call.snap.now <= o.expiresAt)
        reached(o) ==
          \/ /\ o.recommendation.direction = "long"
             /\ Call.price * 1000 <= o.targetEntry * 1001
          \/ /\ o.recommendation.direction = "short"
             /\ Call.price * 1000 >= o.targetEntry * 999
        examined == {i \in 1..Len(live) :
                       \A j \in 1..(i - 1) : live[j].id # Call.ret.id}
    IN \A i \in examined :
         /\ reached(live[i]) <=> live[i].id = Call.ret.id
         /\ reached(live[i]) =>
              /\ Call.signal.direction = live[i].recommendation.direction
              /\ Call.signal.entryPrice = Call.price
              /\ Call.signal.executionStrategy = "market"
              /\ Call.signal.stopLoss = live[i].recommendation.stopLoss
              /\ Call.signal.takeProfit = live[i].recommendation.takeProfit
              /\ \A k \in 1..Len(pendingOrders) :
                   pendingOrders[k].id # live[i].id
         /\ ~reached(live[i]) =>
              \E k \in 1..Len(pendingOrders) : pendingOrders[k] = live[i]

C27_Witness ==
  /\ Call.ret.reason = "checked"
  /\ Call.ret.id # 0
  /\ Call.signal.direction = "long"
  /\ Len(Before) = MaxLimitOrders
  /\ Before[1].id # Call.ret.id
  /\ Call.snap.now <= Before[1].expiresAt
  /\ Call.price > Before[MaxLimitOrders].targetEntry

\* C28: a limit recommendation on the wrong side of the current price or
\* more than 3% from it is rejected and changes nothing; one less than 0.3%
\* from it goes on as a market order in the same call and adds nothing to
\* the store; so every entry of the store has its target entry on the
\* reachable side of its creation price, between 0.3% and 3% from it.
C28_LimitRule ==
  /\ [](/\ \A i \in 1..Len(pendingOrders) :
            LET o == pendingOrders[i]
                d == Abs(o.targetEntry - o.currentPrice)
            IN /\ o.recommendation.direction = "long" =>
                    o.targetEntry < o.currentPrice
               /\ o.recommendation.direction = "short" =>
                    o.targetEntry > o.currentPrice
               /\ d * 1000 >= 3 * o.currentPrice
               /\ d * 100 <= 3 * o.currentPrice
        /\ (pc[Api] = "idle" /\ Call.ret.reason \in {"unreachable", "too_far"}) =>
              /\ pendingOrders = Call.snap.pendingOrders
              /\ trades = Call.snap.trades
              /\ exchangeOrders = Call.snap.exchangeOrders)
  /\ [][(pc[Api] = "et_price" /\ Call.signal.executionStrategy = "limit") =>
          /\ pc'[Api] # "et_place"
          /\ pc'[Api] = "et_active" =>
               /\ loc'[Api].signal =
                    [Call.signal EXCEPT !.executionStrategy = "market"]
               /\ pendingOrders' = pendingOrders
          /\ pendingOrders' # pendingOrders =>
               /\ pc'[Api] = "idle"
               /\ Len(pendingOrders') = Len(pendingOrders) + 1
               /\ pendingOrders'[Len(pendingOrders')].recommendation = Call.signal
               /\ trades' = trades]_vars

C28_Witness ==
  /\ pc[Api] = "et_active"
  /\ Call.signal.executionStrategy = "market"
  /\ Call.snap.pendingOrders # <<>>
  /\ \E i \in 1..Len(pendingOrders) :
       /\ pendingOrders[i].recommendation.direction = Call.signal.direction
       /\ pendingOrders[i].targetEntry = Call.signal.entryPrice

\* C29: every Trade executeTrade creates, for a market recommendation or
\* for a triggered limit order, has the current market price as entry and
\* its stop and target computed from that entry: long stop < entry <
\* target, short target < entry < stop, |target - entry| = 2 * |entry - stop|.
C29_MarketLevels ==
  /\ [](\A i \in 1..Len(trades) :
          LET tr == trades[i] IN
          /\ tr.direction = "long" =>
               tr.stopLoss < tr.entryPrice /\ tr.entryPrice < tr.takeProfit
          /\ tr.direction = "short" =>
               tr.takeProfit < tr.entryPrice /\ tr.entryPrice < tr.stopLoss
          /\ Abs(tr.takeProfit - tr.entryPrice) =
               2 * Abs(tr.entryPrice - tr.stopLoss))
  /\ [][\A p \in Procs :
          (pc[p] = "et_place" /\ pc'[p] = "idle" /\ trades' # trades) =>
            /\ Len(trades') = Len(trades) + 1
            /\ loc[p].signal.executionStrategy = "market"
            /\ trades'[Len(trades')].direction = loc[p].signal.direction
            /\ trades'[Len(trades')].entryPrice = loc[p].price]_vars

C29_Witness ==
  \E i \in 1..Len(trades) :
    /\ pendingOrders = <<>>
    /\ limitSeq > 0
    /\ \A signal \in AnalysisSignals :
         signal.direction = trades[i].direction =>
           /\ signal.entryPrice # trades[i].entryPrice
           /\ signal.stopLoss # trades[i].stopLoss

\* C30: when the order of a Trade is reported closed with a fill and no
\* position of its symbol remains, the Trade becomes sl_hit if the fill is
\* strictly nearer to the stop than to the target and tp_hit otherwise;
\* while a position remains the Trade is left as it is.  Long entry 2700,
\* stop 2685, target 2730, fill 2684: sl_hit with negative PnL.
C30_ResolvedByNearerLevel ==
  Call.ret.reason = "monitored" =>
    LET was == Call.snap.trades[Call.ret.id]
        row == trades[Call.ret.id]
        a == Call.ret.answer
        fill == FillPrice(was, a.fill)
        nearerStop == Abs(fill - was.stopLoss) < Abs(fill - was.takeProfit)
        settled == /\ a.statusOk /\ a.state = "closed" /\ a.filled
                   /\ fill # 0 /\ a.positionsOk /\ ~a.activePosition
                   /\ a.storeOk
                   /\ was.deltaOrderId # 0
                   /\ (Call.snap.now - was.entryTime) * 60 >= WarmUpSeconds
    IN /\ settled =>
            /\ row.status = IF nearerStop THEN "sl_hit" ELSE "tp_hit"
            /\ row.exitPrice = IF nearerStop THEN was.stopLoss
                               ELSE was.takeProfit
       /\ (a.positionsOk /\ a.activePosition) => row = was
       /\ (settled /\ was.direction = "long" /\ was.entryPrice = 270000
            /\ was.stopLoss = 268500 /\ was.takeProfit = 273000
            /\ fill = 268400) =>
            row.status = "sl_hit" /\ row.pnl < 0

C30_Witness ==
  /\ Call.ret.reason = "monitored"
  /\ Call.ret.answer.fill = "slipped"
  /\ Call.snap.trades[Call.ret.id].direction = "long"
  /\ Call.snap.trades[Call.ret.id].stopLoss = 268500
  /\ trades[Call.ret.id].status = "sl_hit"
  /\ trades[Call.ret.id].pnl < 0

\* C31: when the position query fails in a monitor pass, the open Trade
\* examined is left untouched: no status change, no exit price, no PnL.
C31_PositionFailureLeavesTrade ==
  (Call.ret.reason = "monitored" /\ ~Call.ret.answer.positionsOk) =>
    trades[Call.ret.id] = Call.snap.trades[Call.ret.id]

\* C32: when the exchange answers with no state, or with state closed and
\* no usable fill price, the Trade is left untouched by the iteration,
\* stays open and is among the trades the next pass reads.
C32_UninterpretableLeftOpen ==
  LET a == Call.ret.answer IN
  (/\ Call.ret.reason = "monitored"
   /\ a.statusOk
   /\ \/ a.state = "none"
      \/ a.state = "closed" /\ a.fill = "none") =>
    /\ trades[Call.ret.id] = Call.snap.trades[Call.ret.id]
    /\ trades[Call.ret.id].status = "open"
    /\ Call.ret.id \in getActiveTrades(TRUE)

C32_Witness ==
  /\ Call.ret.reason = "monitored"
  /\ Call.ret.answer.state = "closed"
  /\ Call.ret.answer.fill = "none"
  /\ ~Call.ret.answer.filled
  /\ ~Call.ret.answer.activePosition
  /\ Call.snap.now > Call.snap.trades[Call.ret.id].entryTime
  /\ ENABLED ApiMonitorTrade

\* An iteration of the monitor loop on a trade with an order id, past the
\* warm-up, whose order status was read.
Examined ==
  /\ Call.ret.reason = "monitored"
  /\ Call.ret.answer.statusOk
  /\ Call.snap.trades[Call.ret.id].deltaOrderId # 0
  /\ (Call.snap.now - Call.snap.trades[Call.ret.id].entryTime) * 60
       >= WarmUpSeconds

\* C33: a Trade whose order is reported cancelled with no fill is marked
\* cancelled, with no exit price and no PnL; a Trade whose order is in a
\* state that is neither closed nor cancelled is left unchanged.
C33_CancelledMarked ==
  LET a == Call.ret.answer
      was == Call.snap.trades[Call.ret.id]
      row == trades[Call.ret.id]
  IN (Examined /\ a.storeOk) =>
       /\ (a.state = "cancelled" /\ ~a.filled) =>
            row.status = "cancelled" /\ row.exitPrice = 0 /\ row.pnl = 0
       /\ a.state \notin {"closed", "cancelled"} => row = was

\* C33, amended: the Trade is marked cancelled, and nothing else of it is
\* changed, when no open position of its symbol is found, the order is
\* reported cancelled, or closed with a fill price and nothing filled, and
\* the write succeeds; it is left unchanged when that write fails, when an
\* open position of its symbol is found, and when the state is neither
\* closed nor cancelled.
C33_Amended ==
  LET a == Call.ret.answer
      was == Call.snap.trades[Call.ret.id]
      row == trades[Call.ret.id]
      held == a.positionsOk /\ a.activePosition
      unfilled == \/ a.state = "cancelled"
                  \/ a.state = "closed" /\ a.fill # "none" /\ ~a.filled
  IN Examined =>
       /\ (unfilled /\ ~held /\ a.storeOk) =>
            row = [was EXCEPT !.status = "cancelled"]
       /\ (unfilled /\ ~held /\ ~a.storeOk) => row = was
       /\ (held /\ a.state # "none") => row = was
       /\ a.state \notin {"closed", "cancelled"} => row = was

C33_Witness ==
  /\ Examined
  /\ Call.ret.answer.state = "cancelled"
  /\ Call.ret.answer.activePosition
  /\ trades[Call.ret.id].status = "open"

\* C34: for an open Trade younger than the warm-up window of 30 seconds, or
\* without an order id, a monitor pass neither queries the exchange nor
\* changes the Trade.
C34_YoungOrUnreferencedSkipped ==
  LET was == Call.snap.trades[Call.ret.id] IN
  (/\ Call.ret.reason = "monitored"
   /\ \/ was.deltaOrderId = 0
      \/ (Call.snap.now - was.entryTime) * 60 < 30) =>
    /\ ~Call.ret.queried
    /\ trades[Call.ret.id] = was

C34_Witness ==
  /\ Call.ret.reason = "monitored"
  /\ Call.snap.trades[Call.ret.id].deltaOrderId # 0
  /\ Call.snap.now = Call.snap.trades[Call.ret.id].entryTime
  /\ Call.ret.answer.state = "closed"
  /\ Call.ret.answer.filled
  /\ Call.ret.answer.fill = "target"
  /\ ~Call.ret.answer.activePosition

\* C35: under every interleaving of an analysis pass and a monitor pass the
\* number of Trades with status open never exceeds
\* Settings.concurrentTrades.
C35_OpenTradesWithinLimit ==
  Cardinality({i \in 1..Len(trades) : trades[i].status = "open"})
    <= settings.concurrentTrades

\* C36: a latch is released when its pass ends, however it ends: the step in
\* which the pass of a kind ends clears the latch of that kind, the latch of
\* a kind is clear whenever no pass of that kind is running, and a trigger
\* that arrives then starts a pass.
C36_LatchReleased ==
  /\ []( /\ (\A s \in MonSlots : ~Running(s))
            => ~isMonitoring /\ ENABLED (MonitorTrigger("m1") /\ isMonitoring')
         /\ (\A s \in AnaSlots : ~Running(s))
            => ~isAnalyzing /\ ENABLED (AnalysisTrigger("a1") /\ isAnalyzing') )
  /\ [][ /\ \A s \in MonSlots : Running(s) /\ pc'[s] = "idle" => ~isMonitoring'
         /\ \A s \in AnaSlots : Running(s) /\ pc'[s] = "idle" => ~isAnalyzing' ]_vars

\* Passes of both kinds have ended, one of them after creating a Trade, one
\* after storing a pending order, and no pass is running.
C36_Witness ==
  /\ \A s \in MonSlots \cup AnaSlots : ~Running(s)
  /\ ~isMonitoring /\ ~isAnalyzing
  /\ Len(trades) > 0
  /\ Len(pendingOrders) > 0

\* C37: no exchange order is placed and no Trade is created while
\* Settings.autoTradingEnabled is false, in the analysis pass and in a
\* monitor pass whose pending limit order triggers after the switch-off.
C37_NothingPlacedWhileDisabled ==
  [][ (\/ Len(exchangeOrders') > Len(exchangeOrders)
       \/ Len(trades') > Len(trades))
      => settings.autoTradingEnabled ]_vars

\* C38: every exchange order that executeTrade placed has a matching local
\* Trade: no order of the exchange is without a Trade that references it.
C38_PlacedOrderHasTrade ==
  \A k \in 1..Len(exchangeOrders) :
    \E i \in 1..Len(trades) :
      exchangeOrders[k].hasId /\ trades[i].deltaOrderId = exchangeOrders[k].id

\* C39: a Trade the monitor closed with status sl_hit has its stop as exit
\* price and a negative recorded PnL, and one closed with status tp_hit has
\* its target as exit price and a positive recorded PnL.
C39_HitSign ==
  \A i \in 1..Len(trades) :
    /\ trades[i].status = "sl_hit" =>
         trades[i].exitPrice = trades[i].stopLoss /\ trades[i].pnl < 0
    /\ trades[i].status = "tp_hit" =>
         trades[i].exitPrice = trades[i].takeProfit /\ trades[i].pnl > 0

\* A monitor pass has closed a short Trade at its stop, above the entry.
C39_Witness ==
  \E i \in 1..Len(trades) :
    /\ trades[i].status = "sl_hit"
    /\ trades[i].direction = "short"
    /\ trades[i].exitPrice > trades[i].entryPrice
    /\ trades[i].pnl < 0

\* C40: every pending limit order eventually leaves the store, provided the
\* clock advances and the cleanup job keeps firing: an entry that is in the
\* store is, at some later time, no longer in it.
C40_EveryOrderLeaves ==
  \A id \in 1..MaxLimitOrders :
    (id \in PendingIds(pendingOrders)) ~> (id \notin PendingIds(pendingOrders))

\* Both pending orders were stored and have left the store after their
\* expiry, none of them by becoming a Trade.
C40_Witness ==
  /\ limitSeq = MaxLimitOrders
  /\ pendingOrders = <<>>
  /\ trades = <<>>
  /\ exchangeOrders = <<>>
  /\ now > EXPIRY_MINUTES

====
